---- MODULE Spec2Model ----
(***************************************************************************)
(* A model of khan, a MongoDB mapping layer: the record-level and          *)
(* projection-level operations of khan/src/lib.rs, the Lock wrapper, the   *)
(* projection-document cache, and the parts of the Entity derive           *)
(* (khan-macros/src/derive_entity.rs) those operations consume.            *)
(*                                                                         *)
(* Documents are functions from keys (strings) to values; a value is a     *)
(* string, a number or a document.  Option<T> is a sequence of length 0    *)
(* or 1.                                                                   *)
(* The database (driver and server) is the environment: it is modelled as  *)
(* a collection with snapshot transactions and first-writer-wins write     *)
(* conflicts.                                                              *)
(***************************************************************************)
EXTENDS Integers, Sequences, FiniteSets, TLC

\* ------------------------------------------------------------------ bounds
MaxId == 1
MaxSession == 2
MaxSeed == 1
MaxCalls == 3

IdPool == <<"X", "Y", "Z">>
Ids == {IdPool[i] : i \in 1..MaxId}
Sessions == 1..MaxSession
NoSession == 0

\* ------------------------------------------------------------- documents
None == <<>>
Some(v) == <<v>>

EmptyDoc == [k \in {} |-> ""]

\* bson::Document::insert: a present key keeps its place and gets the value.
DocInsert(d, k, v) == [x \in (DOMAIN d) \cup {k} |-> IF x = k THEN v ELSE d[x]]

\* doc! { k: v }
Doc1(k, v) == DocInsert(EmptyDoc, k, v)

Range(s) == {s[i] : i \in DOMAIN s}
Perms(S) == {p \in [1..Cardinality(S) -> S] : Range(p) = S}

\* ------------------------------------------------- the derived entity
\* struct User { #[serde(rename = "_id")] id, name }
EntityIdent == "User"
FieldIdents == {"id", "name"}
Rename == Doc1("id", "_id")

\* What serde writes for a field: the rename, or the field's own name.
SerdeName(f) == IF f \in DOMAIN Rename THEN Rename[f] ELSE f

\* `fields.keys()` and `field_lits_by_ident.values()` iterate two HashMaps,
\* each in its own order: a build is one order of each.  The two are only
\* ever zipped, so the first is written in one order and the second in all.
Builds ==
    LET
        extract_serde_rename(f) == IF f \in DOMAIN Rename THEN Some(Rename[f]) ELSE None
        \* derive_entity.rs build: the literal emitted for a field is its rename, or
        \* `ident.to_string()`, ident being the entity's identifier.
        field_lits_by_ident(f) ==
            LET rename == extract_serde_rename(f)
            IN  IF rename # None THEN rename[1] ELSE EntityIdent
    IN
    {[field_idents |-> p, field_lits |-> [i \in DOMAIN q |-> field_lits_by_ident(q[i])]] :
        p \in {<<"id", "name">>}, q \in Perms(FieldIdents)}

\* bson::to_document of an entity (serde, honouring the renames)
Serialize(e) ==
    [k \in {SerdeName(f) : f \in DOMAIN e} |->
        e[CHOOSE f \in DOMAIN e : SerdeName(f) = k]]

\* impl Update for TypedUpdate: the i-th field identifier is written under
\* the i-th literal.
TypedUpdate_to_document(b, u) ==
    LET
        \* A TypedUpdate is the function from its Set fields to their values.
        RECURSIVE TypedToDocFrom(_, _, _, _)
        TypedToDocFrom(b1, u1, i, d) ==
            IF i > Len(b1.field_idents) THEN d
            ELSE TypedToDocFrom(b1, u1, i + 1,
                    IF b1.field_idents[i] \in DOMAIN u1
                    THEN DocInsert(d, b1.field_lits[i], u1[b1.field_idents[i]])
                    ELSE d)
    IN
                                 TypedToDocFrom(b, u, 1, EmptyDoc)

\* build_fields_enum: one variant per field identifier, named in upper camel
\* case, in the order of field_idents.
to_upper_camel_case(ident) ==
    CASE ident = "id" -> "Id"
      [] ident = "name" -> "Name"

Fields_variants(b) ==
    [i \in DOMAIN b.field_idents |-> to_upper_camel_case(b.field_idents[i])]

\* ToString::to_string, and From<Fields> for String which calls it
Fields_to_string(b, value) ==
    LET
        \* The arms of the generated `match self`: the i-th is
        \* `<variant identifier> => <i-th literal>`.  The pattern is a bare
        \* identifier, and no variant is in scope under that name inside the helper
        \* module, so it is a binding: it matches whatever value it is given.
        ArmMatches(b2, i, value2) == TRUE
        \* impl Display for Fields: the literal of the first arm that matches.
        Fields_fmt(b1, value1) ==
            b1.field_lits[CHOOSE i \in DOMAIN b1.field_lits :
                             /\ ArmMatches(b1, i, value1)
                             /\ \A j \in 1..(i - 1) : ~ArmMatches(b1, j, value1)]
    IN
                              Fields_fmt(b, value)
\* ------------------------------------------------------ filters, updates
\* by_id: doc! { "_id": to_bson(id) }
by_id(id) == [kind |-> "by_id", doc |-> Doc1("_id", id)]

\* UntypedFilter::new(document)
UntypedFilter(d) == [kind |-> "untyped", doc |-> d]

\* Filter::to_document
Filter_to_document(f) == f.doc

UntypedUpdate(d) == [kind |-> "untyped", doc |-> d, set |-> EmptyDoc]
UntypedUpdateApply(d, u) == [kind |-> "untyped_apply", doc |-> d, set |-> u]

\* Update::to_document
Update_to_document(b, upd) ==
    IF upd.kind = "typed" THEN TypedUpdate_to_document(b, upd.set) ELSE upd.doc

\* An apply that assigns every Set field of the update, whether the target
\* has the field or not.
apply_every_set_field(upd, p) ==
    [f \in (DOMAIN p) \cup (DOMAIN upd.set) |->
        IF f \in DOMAIN upd.set THEN upd.set[f] ELSE p[f]]

\* UpdateApply::apply: the generated impl for a TypedUpdate, the closure
\* for an UntypedUpdateApply.
UpdateApply_apply(upd, p) ==
    LET
        \* build_update_apply: each Set field of the update that the target has
        \* is assigned; nothing else is touched.
        TypedUpdate_apply(u, p1) ==
            [f \in DOMAIN p1 |-> IF f \in DOMAIN u THEN u[f] ELSE p1[f]]
    IN
    IF upd.kind = "typed" THEN TypedUpdate_apply(upd.set, p)
    ELSE [f \in DOMAIN p |-> IF f \in DOMAIN upd.set THEN upd.set[f] ELSE p[f]]

\* ------------------------------------------------ the database boundary
\* A collection is a function from the identities present to documents.
EmptyColl == [k \in {} |-> EmptyDoc]

\* A session's transaction: none, active, failed (aborted by the server
\* after an error; the client has not ended it yet), committed, aborted.
\* writes: the identities it wrote; stale: those written by others since its
\* snapshot.  Two history fields: conc, the pairs <<id, t>> of a write of id
\* made while the transaction of session t was open; locked, the identities
\* of existing documents it obtained a Lock on by a dummy write.
TxNone == [state |-> "none", view |-> EmptyColl, writes |-> {}, stale |-> {},
           conc |-> {}, locked |-> {}]

InTxn(db, s) == s # NoSession /\ db.tx[s].state = "active"
\* What an operation bound to s reads.
ViewOf(db, s) == IF InTxn(db, s) THEN db.tx[s].view ELSE db.coll

FailTx(db, s) ==
    IF InTxn(db, s) THEN [db EXCEPT !.tx[s] = [TxNone EXCEPT !.state = "failed"]] ELSE db

Matching(view, fdoc) ==
    LET
        \* Query matching: every key of the filter is a field of the document
        \* with an equal value.
        Matches(doc, fdoc1) == \A k \in DOMAIN fdoc1 : k \in DOMAIN doc /\ doc[k] = fdoc1[k]
    IN
                        {id \in DOMAIN view : Matches(view[id], fdoc)}

\* ---------------------------------------------------- driver operations
\* Every driver call yields [ok, err, db, blocked, val, calls]: ok is FALSE
\* for an error and err is the error; blocked says the call has to wait for
\* an open transaction; calls lists the calls made on the collection.
\* env = [build, store, fail, pick, seed]: the build of the derive, the
\* server's reading of `$` field names, whether this call fails before it
\* reaches the server, the matching document a single-document call takes,
\* and the value the next ObjectId::new() yields.
Ok(db, val) ==
    [ok |-> TRUE, err |-> "none", db |-> db, blocked |-> FALSE, val |-> val,
     calls |-> <<>>]
Err(db, e) ==
    [ok |-> FALSE, err |-> e, db |-> db, blocked |-> FALSE, val |-> None,
     calls |-> <<>>]

Written(db, s, new, val) ==
    LET
        \* The identities on which two collections differ.
        Touched(old, new2) ==
            {id \in (DOMAIN old) \cup (DOMAIN new2) :
                ~(id \in DOMAIN old /\ id \in DOMAIN new2 /\ old[id] = new2[id])}
        \* A transactional write conflicts with a write another open transaction
        \* made, or one committed since this transaction's snapshot.
        Conflict(db3, s3, ids) ==
            \E id \in ids :
                \/ id \in db3.tx[s3].stale
                \/ \E t \in Sessions \ {s3} : db3.tx[t].state = "active" /\ id \in db3.tx[t].writes
        \* A write outside a transaction waits for the open transactions that wrote
        \* the same documents.
        Blocked(db2, s2, ids) ==
            /\ ~InTxn(db2, s2)
            /\ \E t \in Sessions : db2.tx[t].state = "active" /\ ids \cap db2.tx[t].writes # {}
        \* The server takes a write that turns the view of s into `new`.
        DbWrite(db1, s1, new1) ==
            LET ids == Touched(ViewOf(db1, s1), new1)
                meanwhile == {<<id, t>> : id \in ids,
                                t \in {u \in Sessions \ {s1} : db1.tx[u].state = "active"}}
            IN
            IF InTxn(db1, s1)
            THEN IF Conflict(db1, s1, ids)
                 THEN [ok |-> FALSE, err |-> "write_conflict",
                       db |-> [db1 EXCEPT !.tx[s1] = [TxNone EXCEPT !.state = "failed",
                                                                     !.conc = meanwhile]]]
                 ELSE [ok |-> TRUE, err |-> "none",
                       db |-> [db1 EXCEPT !.tx[s1].view = new1,
                                          !.tx[s1].writes = @ \cup ids,
                                          !.tx[s1].conc = @ \cup meanwhile]]
            ELSE [ok |-> TRUE, err |-> "none",
                  db |-> [coll |-> new1,
                          tx |-> [t \in Sessions |->
                                    IF db1.tx[t].state = "active"
                                    THEN [db1.tx[t] EXCEPT !.stale = @ \cup ids]
                                    ELSE db1.tx[t]]]]
    IN
    LET w == DbWrite(db, s, new) IN
    [ok |-> w.ok, err |-> w.err, db |-> w.db,
     blocked |-> Blocked(db, s, Touched(ViewOf(db, s), new)),
     val |-> IF w.ok THEN val ELSE None,
     calls |-> <<>>]

\* What stops a call before the server looks at it: the connection, or a
\* transaction of the session that the server has already aborted.
Unreachable(db, s, env) ==
    LET
        TxFailed(db1, s1) == s1 # NoSession /\ db1.tx[s1].state = "failed"
    IN
    IF env.fail THEN "network" ELSE IF TxFailed(db, s) THEN "no_transaction" ELSE "none"

\* The call `name`, bound to session s (NoSession: standalone), with the sort
\* option it carried, on a collection where `matched` documents matched its
\* filter, ended as r did.  update: the update document an updating call
\* was given.
Called(name, s, matched, sort, r) ==
    [r EXCEPT !.calls = <<[call |-> name, session |-> s, ok |-> r.ok, err |-> r.err,
                           matched |-> matched, sort |-> sort, update |-> None]>>]

\* The document a single-document call takes among those matching.
OneOf(m, pick) ==
    IF m = {} THEN {} ELSE IF pick \in m THEN {pick} ELSE {CHOOSE x \in m : TRUE}

\* insert_one / insert_many (ordered): a duplicate key is an error, and
\* outside a transaction the documents before it stay inserted.
collection_insert(db, s, docs, env) ==
    LET
        \* The longest prefix of docs the server can insert: fresh, distinct ids.
        RECURSIVE InsertablePrefix(_, _, _)
        InsertablePrefix(docs1, present, n) ==
            IF n < Len(docs1) /\ docs1[n + 1]["_id"] \notin present
            THEN InsertablePrefix(docs1, present \cup {docs1[n + 1]["_id"]}, n + 1)
            ELSE n
    IN
    LET view == ViewOf(db, s)
        n == InsertablePrefix(docs, DOMAIN view, 0)
        ids == {docs[i]["_id"] : i \in 1..n}
        new == [id \in (DOMAIN view) \cup ids |->
                  IF id \in ids
                  THEN docs[CHOOSE i \in 1..n : docs[i]["_id"] = id]
                  ELSE view[id]]
    IN  IF Unreachable(db, s, env) # "none" THEN Err(db, Unreachable(db, s, env))
        ELSE IF n = Len(docs) THEN Written(db, s, new, None)
        ELSE IF InTxn(db, s) THEN Err(FailTx(db, s), "duplicate_key")
        ELSE [Written(db, s, new, None) EXCEPT !.ok = FALSE, !.err = "duplicate_key"]

collection_insert_one(db, s, doc, env) ==
    Called("insert_one", s, 0, None, collection_insert(db, s, <<doc>>, env))

\* update_one / update_many on the documents `targets` of those matching.
collection_update(db, s, fdoc, udoc, targets, env) ==
    LET
        \* keys the server reads as operators, never as field names
        DollarKeys == {"$set", "$unset", "$inc", "$push", "$pop",
                       "$eq", "$ne", "$gt", "$gte", "$lt", "$lte", "$in", "$nin"}
        \* The driver refuses an update document whose keys are not operators.
        DriverAcceptsUpdate(upd) == DOMAIN upd # {} /\ DOMAIN upd \subseteq DollarKeys
        \* The server applies { "$set": arg } to a document: None is an error.
        \* A `$`-prefixed field name is stored or refused, as the server decides
        \* (dollarStore); `_id` is immutable.
        RECURSIVE SetFields(_, _, _)
        SetFields(doc, arg, keys) ==
            IF keys = {} THEN doc
            ELSE LET k == CHOOSE x \in keys : TRUE
                 IN  SetFields(DocInsert(doc, k, arg[k]), arg, keys \ {k})
        ServerApplyUpdate(doc, upd, store) ==
            IF DOMAIN upd # {"$set"} THEN None
            ELSE LET arg == upd["$set"] IN
                 IF \E k \in DOMAIN arg : k \in DollarKeys /\ ~store THEN None
                 ELSE IF "_id" \in DOMAIN arg /\ arg["_id"] # doc["_id"] THEN None
                 ELSE Some(SetFields(doc, arg, DOMAIN arg))
    IN
    LET view == ViewOf(db, s)
        res == [id \in targets |-> ServerApplyUpdate(view[id], udoc, env.store)]
        new == [id \in DOMAIN view |-> IF id \in targets THEN res[id][1] ELSE view[id]]
    IN  IF ~DriverAcceptsUpdate(udoc) THEN Err(db, "invalid_update")
        ELSE IF Unreachable(db, s, env) # "none" THEN Err(db, Unreachable(db, s, env))
        ELSE IF \E id \in targets : res[id] = None THEN Err(FailTx(db, s), "write_error")
        ELSE Written(db, s, new, None)

Matched(db, s, fdoc) == Cardinality(Matching(ViewOf(db, s), fdoc))

\* delete_one / delete_many
collection_delete(db, s, targets, env) ==
    LET view == ViewOf(db, s)
        new == [id \in (DOMAIN view) \ targets |-> view[id]]
    IN  IF Unreachable(db, s, env) # "none" THEN Err(db, Unreachable(db, s, env))
        ELSE Written(db, s, new, None)

\* The server's projection: a non-zero number includes a field, zero
\* excludes it; `_id` comes along unless it is excluded.
Truthy(v) == v # 0

Projected(doc, proj) ==
    LET
        ServerProject(doc1, pdoc) ==
            LET others == (DOMAIN pdoc) \ {"_id"}
                incl == {k \in others : Truthy(pdoc[k])}
                excl == {k \in others : ~Truthy(pdoc[k])}
                idIn == "_id" \notin DOMAIN pdoc \/ Truthy(pdoc["_id"])
                inclusive == incl # {} \/ (others = {} /\ "_id" \in DOMAIN pdoc /\ idIn)
                keys == IF inclusive
                        THEN incl \cup (IF idIn THEN {"_id"} ELSE {})
                        ELSE ((DOMAIN doc1) \ excl) \ (IF idIn THEN {} ELSE {"_id"})
            IN  [k \in keys \cap DOMAIN doc1 |-> doc1[k]]
    IN
                        IF proj = None THEN doc ELSE ServerProject(doc, proj[1])

\* find_one: one matching document, projected, or None.
collection_find_one(db, s, fdoc, proj, env) ==
    LET view == ViewOf(db, s)
        t == OneOf(Matching(view, fdoc), env.pick)
    IN  Called("find_one", s, Matched(db, s, fdoc), None,
               IF Unreachable(db, s, env) # "none" THEN Err(db, Unreachable(db, s, env))
               ELSE Ok(db, IF t = {} THEN None
                           ELSE Some(Projected(view[CHOOSE id \in t : TRUE], proj))))

\* find_one_and_update: updates one matching document and returns it as it
\* was before the update (the driver's default), projected.
collection_find_one_and_update(db, s, fdoc, udoc, proj, env) ==
    LET view == ViewOf(db, s)
        t == OneOf(Matching(view, fdoc), env.pick)
        before == IF t = {} THEN None
                  ELSE Some(Projected(view[CHOOSE id \in t : TRUE], proj))
        r == collection_update(db, s, fdoc, udoc, t, env)
    IN  [Called("find_one_and_update", s, Matched(db, s, fdoc), None,
                IF r.ok THEN [r EXCEPT !.val = before] ELSE r)
            EXCEPT !.calls[1].update = Some(udoc)]

\* serde deserialization into a type with the fields `idents`: None when a
\* field is missing from the document.
Deserialize(idents, doc) ==
    IF \A f \in idents : SerdeName(f) \in DOMAIN doc
    THEN Some([f \in idents |-> doc[SerdeName(f)]])
    ELSE None

\* The driver decodes what the server returned: a document it cannot decode
\* makes the call fail.
Undecodable(r) ==
    [Err(r.db, "deserialization") EXCEPT
        !.calls = [i \in DOMAIN r.calls |->
                     [r.calls[i] EXCEPT !.ok = FALSE, !.err = "deserialization"]]]

\* ------------------------------------------------ projection documents
compute_projection(fields) ==
    LET
        \* The loop of projection_document over a field list.
        RECURSIVE ProjectionLoop(_, _, _, _)
        ProjectionLoop(fields1, i, has_id, document) ==
            IF i > Len(fields1)
            THEN IF ~has_id THEN DocInsert(document, "_id", -1) ELSE document
            ELSE IF fields1[i] = "id"
                 THEN ProjectionLoop(fields1, i + 1, TRUE, document)
                 ELSE ProjectionLoop(fields1, i + 1, has_id, DocInsert(document, fields1[i], 1))
    IN
                              ProjectionLoop(fields, 1, FALSE, EmptyDoc)

\* A lookup that takes whatever entry the cache holds, whatever its key.
cache_get_any(c, fields) ==
    IF DOMAIN c # {} THEN Some(c[CHOOSE k \in DOMAIN c : TRUE]) ELSE None

\* DOCUMENTS.get(fields): the cached document, or None
cache_get(c, fields) == IF fields \in DOMAIN c THEN Some(c[fields]) ELSE None

\* An insert into a cache that keeps a single entry.
cache_insert_evicting(c, fields, document) == [k \in {fields} |-> document]

\* DOCUMENTS.insert(fields, document)
cache_insert(c, fields, document) ==
    [k \in (DOMAIN c) \cup {fields} |-> IF k = fields THEN document ELSE c[k]]

\* projection_document run without interruption: [doc, cache].
\* FIELDS is None for the entity itself and a field list for a projection.
projection_document(c, FIELDS) ==
    IF FIELDS = None THEN [doc |-> None, cache |-> c]
    ELSE LET hit == cache_get(c, FIELDS[1]) IN
         IF hit # None THEN [doc |-> hit, cache |-> c]
         ELSE [doc |-> Some(compute_projection(FIELDS[1])),
               cache |-> cache_insert(c, FIELDS[1], compute_projection(FIELDS[1]))]

\* --------------------------------------------------- execution contexts
\* A context is [db, session]: the handle of the database and the session.
Database == "database"
Mongo_new == [db |-> Database, session |-> None]
Mongo_new_with_session(s) == [db |-> Database, session |-> Some(s)]
Mongo_rb(mongo) ==
    [db |-> mongo.db,
     session |-> IF mongo.session = None THEN None ELSE Some(mongo.session[1])]
Transaction_new(s) == [db |-> Database, session |-> s]
Transaction_rb(trx) == [db |-> trx.db, session |-> trx.session]

\* A conversion that keeps the handle and leaves the session behind.
Mongo_dropping_session(trx) == [db |-> trx.db, session |-> None]

\* impl From<Transaction> for Mongo
Mongo_from_Transaction(trx) == [db |-> trx.db, session |-> Some(trx.session)]

\* with_session!: the session the query is bound to, NoSession for none.
with_session(mongo) == IF mongo.session = None THEN NoSession ELSE mongo.session[1]

\* --------------------------------------------------------------- Lock
Lock(v) == [locked |-> v]
\* doc! { "$set": { "_lock": { "seed": ObjectId::new() } } }
LockDocument(seed) == Doc1("$set", Doc1("_lock", Doc1("seed", seed)))

\* ------------------------------------------- record-level operations
\* A library operation yields [ok, err, db, blocked, val, locks, calls]: val
\* is the value inside Ok, err the error inside Err, locks the Lock values
\* that value holds, calls the calls it made on the collection.
Unit == <<>>
Ret(r, val, locks) ==
    [ok |-> r.ok, err |-> r.err, db |-> r.db, blocked |-> r.blocked,
     val |-> IF r.ok THEN val ELSE None,
     locks |-> IF r.ok THEN locks ELSE <<>>,
     calls |-> r.calls]

Entity_count(db, mongo, filter, env) ==
    LET
        \* count_documents
        collection_count_documents(db1, s, fdoc, env1) ==
            Called("count_documents", s, Matched(db1, s, fdoc), None,
                   IF Unreachable(db1, s, env1) # "none" THEN Err(db1, Unreachable(db1, s, env1))
                   ELSE Ok(db1, Cardinality(Matching(ViewOf(db1, s), fdoc))))
    IN
    LET r == collection_count_documents(db, with_session(mongo),
                                        Filter_to_document(filter), env)
    IN  Ret(r, r.val, <<>>)

\* An exists that answers false when the count fails.
exists_swallowing_errors(db, mongo, filter, env) ==
    LET count == Entity_count(db, mongo, filter, env)
    IN  [Ret(count, FALSE, <<>>) EXCEPT
            !.ok = TRUE, !.err = "none",
            !.val = IF count.ok THEN count.val > 0 ELSE FALSE]

Entity_exists(db, mongo, filter, env) ==
    LET count == Entity_count(db, mongo, filter, env)
    IN  Ret(count, IF count.ok THEN count.val > 0 ELSE FALSE, <<>>)

\* An insert that hands its entity back as locked.
insert_yielding_lock(db, mongo, self, env) ==
    Ret(collection_insert_one(db, with_session(mongo), Serialize(self), env),
        Lock(self), <<Lock(self)>>)

Entity_insert(db, mongo, self, env) ==
    Ret(collection_insert_one(db, with_session(mongo), Serialize(self), env),
        Unit, <<>>)

Entity_insert_many(db, mongo, entities, env) ==
    LET
        collection_insert_many(db1, s, docs, env1) ==
            Called("insert_many", s, 0, None, collection_insert(db1, s, docs, env1))
    IN
    Ret(collection_insert_many(db, with_session(mongo),
                               [i \in DOMAIN entities |-> Serialize(entities[i])], env),
        Unit, <<>>)

Entity_update_one(db, mongo, filter, update, env) ==
    LET
        collection_update_one(db1, s, fdoc, udoc, env1) ==
            [Called("update_one", s, Matched(db1, s, fdoc), None,
                    collection_update(db1, s, fdoc, udoc,
                                      OneOf(Matching(ViewOf(db1, s), fdoc), env1.pick), env1))
                EXCEPT !.calls[1].update = Some(udoc)]
    IN
    Ret(collection_update_one(db, with_session(mongo), Filter_to_document(filter),
                              Doc1("$set", Update_to_document(env.build, update)), env),
        Unit, <<>>)

\* An update_by_id_locked that hands out the Lock whatever the write returned.
update_by_id_locked_unchecked(db, trx, id, update, env) ==
    [Entity_update_one(db, Mongo_from_Transaction(trx), by_id(id), update, env)
        EXCEPT !.val = Lock(id), !.locks = <<Lock(id)>>]

Entity_update_by_id_locked(db, trx, id, update, env) ==
    LET r == Entity_update_one(db, Mongo_from_Transaction(trx), by_id(id), update, env)
    IN  Ret(r, Lock(id), <<Lock(id)>>)

\* A lock taken by looking the document up instead of writing to it.
lock_by_id_reading(db, trx, id, env) ==
    Ret(Entity_count(db, Mongo_from_Transaction(trx), by_id(id), env),
        Lock(id), <<Lock(id)>>)

Entity_lock_by_id(db, trx, id, env) ==
    Entity_update_by_id_locked(db, trx, id, UntypedUpdate(LockDocument(env.seed)), env)

Entity_delete_one(db, mongo, filter, env) ==
    LET
        collection_delete_one(db1, s, fdoc, env1) ==
            Called("delete_one", s, Matched(db1, s, fdoc), None,
                   collection_delete(db1, s, OneOf(Matching(ViewOf(db1, s), fdoc), env1.pick), env1))
    IN
    Ret(collection_delete_one(db, with_session(mongo), Filter_to_document(filter), env),
        Unit, <<>>)

\* --------------------------------------- projection-level operations
\* A projection type P is [FIELDS, idents]: its FIELDS constant and the
\* fields of the struct.  These operations also yield the cache.
RetP(r, val, locks, c) ==
    [ok |-> r.ok, err |-> r.err, db |-> r.db, blocked |-> r.blocked,
     val |-> IF r.ok THEN val ELSE None,
     locks |-> IF r.ok THEN locks ELSE <<>>,
     calls |-> r.calls,
     cache |-> c]

\* impl Selectable<Self> for the entity: FIELDS = None
EntityType == [name |-> EntityIdent, FIELDS |-> None, idents |-> FieldIdents]

Projection_find_with_opts(db, c, P, mongo, filter, skip, limit, sort, env) ==
    LET
        \* The identities of a set in the collection's natural order.
        RECURSIVE InOrder(_, _)
        InOrder(ids, i) ==
            IF i > Len(IdPool) THEN <<>>
            ELSE (IF IdPool[i] \in ids THEN <<IdPool[i]>> ELSE <<>>) \o InOrder(ids, i + 1)
        \* A sort document is a sequence of entries [k, v], v being 1 or -1: bson
        \* documents keep their keys in the order of insertion.
        \* The server's order of values: the strings of the model, in order.
        ValueOrder == <<"Kit", "Tom", "X", "Y", "Z">>
        Rank(doc, k) ==
            IF k \in DOMAIN doc /\ \E i \in DOMAIN ValueOrder : ValueOrder[i] = doc[k]
            THEN CHOOSE i \in DOMAIN ValueOrder : ValueOrder[i] = doc[k]
            ELSE 0
        \* a comes before b under the sort document, compared key by key
        RECURSIVE Precedes(_, _, _, _)
        Precedes(a, b, sort4, i) ==
            IF i > Len(sort4) THEN FALSE
            ELSE IF Rank(a, sort4[i].k) = Rank(b, sort4[i].k) THEN Precedes(a, b, sort4, i + 1)
            ELSE IF sort4[i].v = 1 THEN Rank(a, sort4[i].k) < Rank(b, sort4[i].k)
            ELSE Rank(a, sort4[i].k) > Rank(b, sort4[i].k)
        \* ids[1..n] sorted, documents that compare equal staying in natural order
        RECURSIVE ServerSort(_, _, _, _)
        ServerSort(view, ids, sort3, n) ==
            IF n = 0 THEN <<>>
            ELSE LET sorted == ServerSort(view, ids, sort3, n - 1)
                     later == {j \in DOMAIN sorted : Precedes(view[ids[n]], view[sorted[j]], sort3, 1)}
                     at == IF later = {} THEN Len(sorted) + 1
                           ELSE CHOOSE j \in later : \A x \in later : j <= x
                 IN  SubSeq(sorted, 1, at - 1) \o <<ids[n]>> \o SubSeq(sorted, at, Len(sorted))
        \* find: the matching documents, sorted if a sort document is given, projected.
        collection_find(db1, s, fdoc, proj, sort2, env1) ==
            LET view == ViewOf(db1, s)
                natural == InOrder(Matching(view, fdoc), 1)
                ids == IF sort2 = None THEN natural
                       ELSE ServerSort(view, natural, sort2[1], Len(natural))
            IN  Called("find", s, Matched(db1, s, fdoc), sort2,
                       IF Unreachable(db1, s, env1) # "none" THEN Err(db1, Unreachable(db1, s, env1))
                       ELSE Ok(db1, [i \in DOMAIN ids |-> Projected(view[ids[i]], proj)]))
        Window(docs, skip1, limit1) ==
            LET from == IF skip1 = None THEN 1 ELSE skip1[1] + 1
                rest == SubSeq(docs, from, Len(docs))
            IN  IF limit1 = None \/ Len(rest) <= limit1[1] THEN rest
                ELSE SubSeq(rest, 1, limit1[1])
        \* Document::from_iter: a key seen again keeps its place and takes the value.
        RECURSIVE Document_from_iter(_, _)
        Document_from_iter(pairs, n) ==
            IF n = 0 THEN <<>>
            ELSE LET d == Document_from_iter(pairs, n - 1)
                     p == pairs[n]
                 IN  IF \E i \in DOMAIN d : d[i].k = p.k
                     THEN [i \in DOMAIN d |-> IF d[i].k = p.k THEN p ELSE d[i]]
                     ELSE Append(d, p)
        \* find_with_opts, the sort document: the map is walked in its own order,
        \* each key rendered by to_string, Asc as 1 and Desc as -1.
        sort_document(b, sort1) ==
            Document_from_iter(
                [i \in DOMAIN sort1 |->
                    [k |-> Fields_to_string(b, sort1[i].k),
                     v |-> IF sort1[i].v = "Asc" THEN 1 ELSE -1]],
                Len(sort1))
    IN
    LET pd == projection_document(c, P.FIELDS)
        sort_doc == IF sort = None THEN None
                    ELSE Some(sort_document(env.build, sort[1]))
        r == collection_find(db, with_session(mongo), Filter_to_document(filter),
                             pd.doc, sort_doc, env)
        docs == Window(r.val, skip, limit)
        entities == [i \in DOMAIN docs |-> Deserialize(P.idents, docs[i])]
    IN  IF r.ok /\ \E i \in DOMAIN entities : entities[i] = None
        THEN RetP(Undecodable(r), None, <<>>, pd.cache)
        ELSE RetP(r, [i \in DOMAIN entities |-> entities[i][1]], <<>>, pd.cache)

\* The Option<Self> a single-document read decodes to.
Decoded(P, r, c) ==
    LET entity == IF r.ok /\ r.val # None THEN Deserialize(P.idents, r.val[1]) ELSE None
    IN  IF r.ok /\ r.val # None /\ entity = None
        THEN RetP(Undecodable(r), None, <<>>, c)
        ELSE RetP(r, entity, <<>>, c)

\* A find_one that reports a missing document as an error.
find_one_requiring_match(db, c, P, mongo, filter, env) ==
    LET pd == projection_document(c, P.FIELDS)
        r == Decoded(P, collection_find_one(db, with_session(mongo),
                                            Filter_to_document(filter), pd.doc, env),
                     pd.cache)
    IN  IF r.ok /\ r.val = None THEN [r EXCEPT !.ok = FALSE, !.err = "not_found"]
        ELSE r

Projection_find_one(db, c, P, mongo, filter, env) ==
    LET pd == projection_document(c, P.FIELDS)
    IN  Decoded(P, collection_find_one(db, with_session(mongo),
                                       Filter_to_document(filter), pd.doc, env),
                pd.cache)

Projection_find_one_and_update(db, c, P, mongo, filter, update, env) ==
    LET pd == projection_document(c, P.FIELDS)
    IN  Decoded(P, collection_find_one_and_update(db, with_session(mongo),
                        Filter_to_document(filter),
                        Update_to_document(env.build, update), pd.doc, env),
                pd.cache)

Projection_find_one_and_update_locked(db, c, P, trx, filter, update, env) ==
    LET r == Projection_find_one_and_update(db, c, P, Mongo_from_Transaction(trx),
                                            filter, update, env)
        entity == IF r.ok /\ r.val # None THEN Some(Lock(r.val[1])) ELSE None
    IN  RetP(r, entity, entity, r.cache)

\* ------------------------------------ identity-bearing operations
\* These also yield self, the in-memory value after the call.
\* applied counts the calls of the update's write-back.
RetS(r, val, locks, self, applied) ==
    [ok |-> r.ok, err |-> r.err, db |-> r.db, blocked |-> r.blocked,
     val |-> IF r.ok THEN val ELSE None,
     locks |-> IF r.ok THEN locks ELSE <<>>,
     calls |-> r.calls,
     self |-> self, applied |-> applied]

ProjectionWithId_id(self) == self.id

\* A patch that writes back to memory whatever the write returned.
patch_applying_first(db, self, mongo, update, env) ==
    LET r == Entity_update_one(db, mongo, by_id(ProjectionWithId_id(self)),
                 UntypedUpdateApply(Update_to_document(env.build, update), EmptyDoc),
                 env)
    IN  RetS(r, Unit, <<>>, UpdateApply_apply(update, self), 1)

ProjectionWithId_patch(db, self, mongo, update, env) ==
    LET r == Entity_update_one(db, mongo, by_id(ProjectionWithId_id(self)),
                 UntypedUpdateApply(Update_to_document(env.build, update), EmptyDoc),
                 env)
    IN  IF ~r.ok THEN RetS(r, None, <<>>, self, 0)
        ELSE RetS(r, Unit, <<>>, UpdateApply_apply(update, self), 1)

\* ================================================================ state
VARIABLES
    coll,         \* the committed collection
    tx,           \* the transaction of each session
    dollarStore,  \* the server stores `$` field names given to $set
    build,        \* the orders the derive iterated its two maps in
    mem,          \* per caller: the entity value it holds, if any
    held,         \* per caller: the Locks it holds and where they came from
    last,         \* the last operation and its outcome
    cache,        \* DOCUMENTS, the projection-document cache
    thr,          \* per thread: its call of projection_document
    returns,      \* the (field list, document) pairs projection_document returned
    log,          \* the last operation as its caller and the driver saw it
    made          \* what the derive and the shorthand macros last produced

vars == <<coll, tx, dollarStore, build, mem, held, last, cache, thr, returns,
          log, made>>

db == [coll |-> coll, tx |-> tx]

ObjectId_new ==
    LET
        \* ObjectId::new(): a value that no stored document holds.
        DocSeeds(doc) ==
            (IF "_lock" \in DOMAIN doc THEN {doc["_lock"]["seed"]} ELSE {})
            \cup (IF "$set" \in DOMAIN doc /\ "_lock" \in DOMAIN doc["$set"]
                  THEN {doc["$set"]["_lock"]["seed"]} ELSE {})
        CollSeeds(view) == UNION {DocSeeds(view[id]) : id \in DOMAIN view}
        UsedSeeds == CollSeeds(coll) \cup UNION {CollSeeds(tx[s].view) : s \in Sessions}
    IN
    IF UsedSeeds = {} THEN 1
    ELSE 1 + (CHOOSE m \in UsedSeeds : \A n \in UsedSeeds : n <= m)

Env(fail, pick) ==
    [build |-> build, store |-> dollarStore, fail |-> fail, pick |-> pick,
     seed |-> ObjectId_new]

\* by: the operation that returned them; during: the state the transaction
\* of the caller's session was in; ids: the identities they stand for.
NoHeld == [by |-> "none", during |-> "none", ids |-> {},
           locks |-> <<>>]

\* op, c: the operation and its caller; ok: it returned Ok; before: the state
\* of the transaction of its session when it was called; kind, set: the kind
\* of update a patch was given and the fields it sets; ids: the identities of
\* the Locks returned; applied: how often the update's write-back ran.
NoOp == [op |-> "none", c |-> 0, ok |-> TRUE, before |-> "none", kind |-> "none",
         set |-> {}, ids |-> {}, applied |-> 0]

NoUpdate == [kind |-> "none", doc |-> EmptyDoc, set |-> EmptyDoc]

TxStateOf(s) == IF s = NoSession THEN "none" ELSE tx[s].state

\* The log of an operation.  on: a log is kept (the specifications that do
\* not read it keep none); op: the operation; session: the session its
\* execution context carried, NoSession for none; ok, err, val: what it
\* returned; locks: the Locks in that value; calls: the calls it made on the
\* collection; given: the sort mapping, the update or the entities it was
\* given, as the caller filled them; tx: the state of the
\* session's transaction before and after; n: the operations logged so far,
\* of which a logged run makes MaxCalls at most.
NoLog == [on |-> FALSE]
\* What every operation leaves behind: the database as the call left it,
\* the Locks the caller received, and the record of the operation.
\* ids are the identities the returned Locks stand for.
FinishWith(op, c, s, r, ids, update, applied, given) ==
    /\ log.on => log.n < MaxCalls
    /\ ~r.blocked
    /\ coll' = r.db.coll
    /\ tx' = IF /\ op \in {"lock_by_id", "find_one_and_lock"}
                /\ Len(r.locks) > 0
                /\ InTxn(r.db, s)
             THEN [r.db.tx EXCEPT ![s].locked = @ \cup (ids \cap DOMAIN ViewOf(db, s))]
             ELSE r.db.tx
    /\ held' = IF Len(r.locks) > 0
               THEN [held EXCEPT ![c] = [by |-> op,
                                         during |-> TxStateOf(s), ids |-> ids,
                                         locks |-> r.locks]]
               ELSE held
    /\ last' = [op |-> op, c |-> c, ok |-> r.ok, before |-> TxStateOf(s),
                kind |-> update.kind, set |-> DOMAIN update.set,
                ids |-> IF Len(r.locks) > 0 THEN ids ELSE {},
                applied |-> applied]
    /\ log' = IF log.on
               THEN [on |-> TRUE, n |-> log.n + 1,
                     op |-> op, session |-> s, ok |-> r.ok, err |-> r.err,
                     val |-> r.val, locks |-> r.locks, calls |-> r.calls,
                     given |-> given,
                     tx |-> <<TxStateOf(s), IF s = NoSession THEN "none"
                                            ELSE r.db.tx[s].state>>]
               ELSE log
    /\ UNCHANGED <<dollarStore, build, thr, returns, made>>

Finish(op, c, s, r, ids, update, applied) ==
    FinishWith(op, c, s, r, ids, update, applied, None)

\* ------------------------------------------------------------- inputs
Callers == Sessions
\* The client under study and the other clients of the same collection.
Clients == {1}
Others == Callers \ Clients
Mongos(c) == {Mongo_new, Mongo_new_with_session(c)}
\* With a single identity by_id matches what the empty filter matches.
Filters ==
    {by_id(id) : id \in Ids}
    \cup (IF Cardinality(Ids) > 1 THEN {UntypedFilter(EmptyDoc)} ELSE {})
\* Whether a call fails before it reaches the server.  Such a call of another
\* client leaves the database as it was: only the client's are followed.
Fails(c) == IF c \in Clients THEN BOOLEAN ELSE {FALSE}
\* Entities are created with one name and renamed to the other.
NewEntities ==
    LET
        Vals == {"Kit", "Tom"}
        \* Entities held in memory: records over the field identifiers.
        Entities == [id : Ids, name : Vals]
    IN
               {e \in Entities : e.name = "Kit"}
Updates ==
    LET
        \* The three Update implementations.  `set` is the TypedUpdate (its Set
        \* fields) or, for UntypedUpdateApply, the assignments its closure makes.
        TypedUpdate(u) == [kind |-> "typed", doc |-> EmptyDoc, set |-> u]
        NewNames == {"Tom"}
    IN
    {TypedUpdate(Doc1("name", v)) : v \in NewNames}
    \cup {UntypedUpdateApply(Doc1("$set", Doc1("name", v)), Doc1("name", v)) :
             v \in NewNames}
\* The document the server takes when several match: any of them.
Picks(filter) == IF filter.kind = "by_id" THEN {filter.doc["_id"]} ELSE Ids
\* The sort mappings a caller passes: none, or one of one or two keys.
Sorts ==
    LET
        Orders == {"Asc", "Desc"}
        SortEntries(variants) ==
            {<<[k |-> a, v |-> x]>> : a \in variants, x \in Orders}
            \cup {e \in {<<[k |-> a, v |-> x], [k |-> b, v |-> y]>> :
                            a \in variants, b \in variants, x \in Orders, y \in Orders} :
                     e[1].k # e[2].k}
    IN
         {None} \cup {Some(e) : e \in SortEntries(Range(Fields_variants(build)))}
\* --------------------------------------------- the session's transaction
StartTransaction(s) ==
    /\ tx[s].state = "none"
    /\ tx' = [tx EXCEPT ![s] = [TxNone EXCEPT !.state = "active", !.view = coll]]
    /\ last' = [NoOp EXCEPT !.op = "start_transaction", !.c = s]
    /\ UNCHANGED <<coll, dollarStore, build, mem, held, cache, thr, returns, log, made>>

CommitTransaction(s) ==
    LET
        \* ClientSession::start_transaction, commit_transaction, abort_transaction:
        \* the caller's, never the library's.
        \* Of a transaction that ended only its history is kept, and of one that
        \* did not commit nothing is.
        Ended(t, state) ==
            IF state = "committed"
            THEN [t EXCEPT !.state = state, !.view = EmptyColl, !.writes = {}, !.stale = {}]
            ELSE [TxNone EXCEPT !.state = state]
    IN
    /\ tx[s].state \in {"active", "failed"}
    /\ LET t == tx[s]
           w == t.writes
       IN  IF t.state = "active"
           THEN /\ coll' = [id \in ((DOMAIN coll) \ w) \cup ((DOMAIN t.view) \cap w) |->
                              IF id \in w THEN t.view[id] ELSE coll[id]]
                /\ tx' = [u \in Sessions |->
                            IF u = s THEN Ended(t, "committed")
                            ELSE IF tx[u].state = "active"
                                 THEN [tx[u] EXCEPT !.stale = @ \cup w]
                                 ELSE tx[u]]
           ELSE /\ coll' = coll
                /\ tx' = [tx EXCEPT ![s] = Ended(t, "aborted")]
    /\ last' = [NoOp EXCEPT !.op = "commit_transaction", !.c = s,
                            !.ok = (tx[s].state = "active"), !.before = tx[s].state]
    /\ UNCHANGED <<dollarStore, build, mem, held, cache, thr, returns, log, made>>

AbortTransaction(s) ==
    LET
        \* ClientSession::start_transaction, commit_transaction, abort_transaction:
        \* the caller's, never the library's.
        \* Of a transaction that ended only its history is kept, and of one that
        \* did not commit nothing is.
        Ended(t, state) ==
            IF state = "committed"
            THEN [t EXCEPT !.state = state, !.view = EmptyColl, !.writes = {}, !.stale = {}]
            ELSE [TxNone EXCEPT !.state = state]
    IN
    /\ tx[s].state \in {"active", "failed"}
    /\ tx' = [tx EXCEPT ![s] = Ended(tx[s], "aborted")]
    /\ last' = [NoOp EXCEPT !.op = "abort_transaction", !.c = s,
                            !.before = tx[s].state]
    /\ UNCHANGED <<coll, dollarStore, build, mem, held, cache, thr, returns, log, made>>

\* ------------------------------------------------------ plain operations
Count(c, mongo) ==
    \E filter \in Filters, fail \in Fails(c) :
        /\ Finish("count", c, with_session(mongo),
                  Entity_count(db, mongo, filter, Env(fail, IdPool[1])), {}, NoUpdate, 0)
        /\ UNCHANGED <<mem, cache>>

Exists(c, mongo) ==
    \E filter \in Filters, fail \in Fails(c) :
        /\ Finish("exists", c, with_session(mongo),
                  Entity_exists(db, mongo, filter, Env(fail, IdPool[1])), {}, NoUpdate, 0)
        /\ UNCHANGED <<mem, cache>>

Insert(c, mongo) ==
    \E self \in NewEntities, fail \in Fails(c) :
        /\ Finish("insert", c, with_session(mongo),
                  Entity_insert(db, mongo, self, Env(fail, IdPool[1])), {}, NoUpdate, 0)
        /\ UNCHANGED <<mem, cache>>

InsertMany(c, mongo) ==
    LET
        EntityLists ==
            {<<e>> : e \in NewEntities} \cup {<<e, f>> : e \in NewEntities, f \in NewEntities}
    IN
    \E entities \in EntityLists, fail \in Fails(c) :
        /\ Finish("insert_many", c, with_session(mongo),
                  Entity_insert_many(db, mongo, entities, Env(fail, IdPool[1])),
                  {}, NoUpdate, 0)
        /\ UNCHANGED <<mem, cache>>

Update(c, mongo) ==
    LET
        Entity_update(db2, mongo1, filter, update, env) ==
            LET
                collection_update_many(db1, s, fdoc, udoc, env1) ==
                    [Called("update_many", s, Matched(db1, s, fdoc), None,
                            collection_update(db1, s, fdoc, udoc, Matching(ViewOf(db1, s), fdoc), env1))
                        EXCEPT !.calls[1].update = Some(udoc)]
            IN
            Ret(collection_update_many(db2, with_session(mongo1), Filter_to_document(filter),
                                       Doc1("$set", Update_to_document(env.build, update)), env),
                Unit, <<>>)
    IN
    \E filter \in Filters, update \in Updates, fail \in Fails(c) :
        /\ FinishWith("update", c, with_session(mongo),
                      Entity_update(db, mongo, filter, update, Env(fail, IdPool[1])),
                      {}, NoUpdate, 0, Some(update))
        /\ UNCHANGED <<mem, cache>>

UpdateOne(c, mongo) ==
    \E filter \in Filters, update \in Updates,
       fail \in Fails(c) :
      \E pick \in Picks(filter) :
        /\ FinishWith("update_one", c, with_session(mongo),
                      Entity_update_one(db, mongo, filter, update, Env(fail, pick)),
                      {}, NoUpdate, 0, Some(update))
        /\ UNCHANGED <<mem, cache>>

Delete(c, mongo) ==
    LET
        Entity_delete(db2, mongo1, filter, env) ==
            LET
                collection_delete_many(db1, s, fdoc, env1) ==
                    Called("delete_many", s, Matched(db1, s, fdoc), None,
                           collection_delete(db1, s, Matching(ViewOf(db1, s), fdoc), env1))
            IN
            Ret(collection_delete_many(db2, with_session(mongo1), Filter_to_document(filter), env),
                Unit, <<>>)
    IN
    \E filter \in Filters, fail \in Fails(c) :
        /\ Finish("delete", c, with_session(mongo),
                  Entity_delete(db, mongo, filter, Env(fail, IdPool[1])), {}, NoUpdate, 0)
        /\ UNCHANGED <<mem, cache>>

DeleteOne(c, mongo) ==
    \E filter \in Filters, fail \in Fails(c) :
      \E pick \in Picks(filter) :
        /\ Finish("delete_one", c, with_session(mongo),
                  Entity_delete_one(db, mongo, filter, Env(fail, pick)), {}, NoUpdate, 0)
        /\ UNCHANGED <<mem, cache>>

Find(c, mongo) ==
    LET
        Projection_find(db1, c1, P, mongo1, filter, env) ==
            Projection_find_with_opts(db1, c1, P, mongo1, filter, None, None, None, env)
    IN
    \E filter \in Filters, fail \in Fails(c) :
        LET r == Projection_find(db, cache, EntityType, mongo, filter,
                                 Env(fail, IdPool[1]))
        IN  /\ Finish("find", c, with_session(mongo), r, {}, NoUpdate, 0)
            /\ cache' = r.cache
            /\ UNCHANGED <<mem>>

\* The caller fills a BTreeMap with the sort keys and passes it on.
FindWithOpts(c, mongo, sorts) ==
    LET
        \* The map a caller gets by inserting `entries` one after the other.
        RECURSIVE BTreeMap_from(_, _, _)
        BTreeMap_from(ord, entries, n) ==
            LET
                \* BTreeMap<E::Fields, Order>: its entries [k, v] in ascending order of the
                \* keys.  The derive emits no Ord for Fields; the program that builds the map
                \* supplies it: ord lists the variants in ascending order.
                Before(ord2, a, b) ==
                    (CHOOSE i \in DOMAIN ord2 : ord2[i] = a) < (CHOOSE i \in DOMAIN ord2 : ord2[i] = b)
                BTreeMap_insert(m, ord1, k, v) ==
                    IF \E i \in DOMAIN m : m[i].k = k
                    THEN [i \in DOMAIN m |-> IF m[i].k = k THEN [k |-> k, v |-> v] ELSE m[i]]
                    ELSE LET n1 == Cardinality({i \in DOMAIN m : Before(ord1, m[i].k, k)})
                         IN  SubSeq(m, 1, n1) \o <<[k |-> k, v |-> v]>> \o SubSeq(m, n1 + 1, Len(m))
            IN
            IF n = 0 THEN <<>>
            ELSE BTreeMap_insert(BTreeMap_from(ord, entries, n - 1), ord,
                                 entries[n].k, entries[n].v)
        \* find_with_opts: skip, limit, and the sort mapping as the caller fills it,
        \* one insert after the other, each key once.
        Skips == {None, Some(1)}
        Limits == {None, Some(1)}
        \* The Ord of the keys is the program's: the derive gives Fields none.
        KeyOrders(given) ==
            IF given = None THEN {Fields_variants(build)}
            ELSE Perms(Range(Fields_variants(build)))
    IN
    \E filter \in Filters, skip \in Skips, limit \in Limits, fail \in Fails(c),
       given \in sorts :
      \E ord \in KeyOrders(given) :
        LET sort == IF given = None THEN None
                    ELSE Some(BTreeMap_from(ord, given[1], Len(given[1])))
            r == Projection_find_with_opts(db, cache, EntityType, mongo, filter,
                                           skip, limit, sort, Env(fail, IdPool[1]))
        IN  /\ FinishWith("find_with_opts", c, with_session(mongo), r, {}, NoUpdate, 0,
                          given)
            /\ cache' = r.cache
            /\ UNCHANGED <<mem>>

FindOne(c, mongo) ==
    \E filter \in Filters, fail \in Fails(c) :
      \E pick \in Picks(filter) :
        LET r == Projection_find_one(db, cache, EntityType, mongo, filter,
                                     Env(fail, pick))
        IN  /\ Finish("find_one", c, with_session(mongo), r, {}, NoUpdate, 0)
            /\ cache' = r.cache
            /\ mem' = IF r.ok THEN [mem EXCEPT ![c] = r.val] ELSE mem

FindOneAndUpdate(c, mongo) ==
    \E filter \in Filters, update \in Updates,
       fail \in Fails(c) :
      \E pick \in Picks(filter) :
        LET r == Projection_find_one_and_update(db, cache, EntityType, mongo, filter,
                                                update, Env(fail, pick))
        IN  /\ FinishWith("find_one_and_update", c, with_session(mongo), r, {}, NoUpdate,
                          0, Some(update))
            /\ cache' = r.cache
            /\ mem' = IF r.ok THEN [mem EXCEPT ![c] = r.val] ELSE mem

Patch(c, mongo) ==
    \E update \in Updates, fail \in Fails(c) :
        /\ mem[c] # None
        /\ LET r == ProjectionWithId_patch(db, mem[c][1], mongo, update,
                                           Env(fail, IdPool[1]))
           IN  /\ FinishWith("patch", c, with_session(mongo), r, {}, update,
                             r.applied, Some(update))
               /\ mem' = [mem EXCEPT ![c] = Some(r.self)]
        /\ UNCHANGED <<cache>>

Remove(c, mongo) ==
    LET
        ProjectionWithId_remove(db1, self, mongo1, env) ==
            LET r == Entity_delete_one(db1, mongo1, by_id(ProjectionWithId_id(self)), env)
            IN  RetS(r, Unit, <<>>, self, 0)
    IN
    \E fail \in Fails(c) :
        /\ mem[c] # None
        /\ Finish("remove", c, with_session(mongo),
                  ProjectionWithId_remove(db, mem[c][1], mongo, Env(fail, IdPool[1])),
                  {}, NoUpdate, 0)
        /\ UNCHANGED <<mem, cache>>

\* ---------------------------------------------------- locking operations
\* The caller builds the Transaction from its session, whatever state the
\* session is in: Transaction::new checks nothing.
InsertLocked(c) ==
    LET
        Entity_insert_locked(db1, trx, self, env) ==
            LET r == Entity_insert(db1, Mongo_from_Transaction(trx), self, env)
            IN  Ret(r, Lock(self), <<Lock(self)>>)
    IN
    \E self \in NewEntities, fail \in Fails(c) :
        /\ Finish("insert_locked", c, c,
                  Entity_insert_locked(db, Transaction_new(c), self,
                                       Env(fail, IdPool[1])),
                  {self.id}, NoUpdate, 0)
        /\ UNCHANGED <<mem, cache>>

InsertManyLocked(c) ==
    LET
        Entity_insert_many_locked(db1, trx, entities, env) ==
            LET r == Entity_insert_many(db1, Mongo_from_Transaction(trx), entities, env)
                locks == [i \in DOMAIN entities |-> Lock(entities[i])]
            IN  Ret(r, locks, locks)
        EntityLists ==
            {<<e>> : e \in NewEntities} \cup {<<e, f>> : e \in NewEntities, f \in NewEntities}
    IN
    \E entities \in EntityLists, fail \in Fails(c) :
        /\ FinishWith("insert_many_locked", c, c,
                      Entity_insert_many_locked(db, Transaction_new(c), entities,
                                                Env(fail, IdPool[1])),
                      {entities[i].id : i \in DOMAIN entities}, NoUpdate, 0,
                      Some(entities))
        /\ UNCHANGED <<mem, cache>>

UpdateByIdLocked(c) ==
    \E id \in Ids, update \in Updates, fail \in Fails(c) :
        /\ FinishWith("update_by_id_locked", c, c,
                      Entity_update_by_id_locked(db, Transaction_new(c), id, update,
                                                 Env(fail, id)),
                      {id}, NoUpdate, 0, Some(update))
        /\ UNCHANGED <<mem, cache>>

LockById(c) ==
    \E id \in Ids, fail \in Fails(c) :
        /\ ObjectId_new <= MaxSeed
        /\ Finish("lock_by_id", c, c,
                  Entity_lock_by_id(db, Transaction_new(c), id, Env(fail, id)),
                  {id}, NoUpdate, 0)
        /\ UNCHANGED <<mem, cache>>

FindOneAndUpdateLocked(c) ==
    LET
        LockedIds(r) == {r.locks[i].locked.id : i \in DOMAIN r.locks}
    IN
    \E filter \in Filters, update \in Updates, fail \in Fails(c) :
      \E pick \in Picks(filter) :
        LET r == Projection_find_one_and_update_locked(db, cache, EntityType,
                     Transaction_new(c), filter, update, Env(fail, pick))
        IN  /\ FinishWith("find_one_and_update_locked", c, c, r, LockedIds(r), NoUpdate,
                          0, Some(update))
            /\ cache' = r.cache
            /\ UNCHANGED <<mem>>

FindOneAndLock(c) ==
    LET
        Projection_find_one_and_lock(db1, c1, P, trx, filter, env) ==
            Projection_find_one_and_update_locked(db1, c1, P, trx, filter,
                UntypedUpdate(LockDocument(env.seed)), env)
        LockedIds(r) == {r.locks[i].locked.id : i \in DOMAIN r.locks}
    IN
    \E filter \in Filters, fail \in Fails(c) :
      \E pick \in Picks(filter) :
        LET r == Projection_find_one_and_lock(db, cache, EntityType,
                     Transaction_new(c), filter, Env(fail, pick))
        IN  /\ ObjectId_new <= MaxSeed
            /\ Finish("find_one_and_lock", c, c, r, LockedIds(r), NoUpdate, 0)
            /\ cache' = r.cache
            /\ UNCHANGED mem

\* patch_locked takes self by value: the caller keeps only the Lock.
PatchLocked(c) ==
    LET
        ProjectionWithId_patch_locked(db1, self, trx, update, env) ==
            LET r == ProjectionWithId_patch(db1, self, Mongo_from_Transaction(trx), update, env)
            IN  RetS(r, Lock(r.self), <<Lock(r.self)>>, r.self, r.applied)
    IN
    \E update \in Updates, fail \in Fails(c) :
        /\ mem[c] # None
        /\ LET r == ProjectionWithId_patch_locked(db, mem[c][1], Transaction_new(c),
                                                  update, Env(fail, IdPool[1]))
           IN  /\ FinishWith("patch_locked", c, c, r, {mem[c][1].id}, update,
                             r.applied, Some(update))
               /\ mem' = [mem EXCEPT ![c] = None]
        /\ UNCHANGED <<cache>>

\* Lock::into_inner: the caller gives a Lock it holds up.
IntoInner(c) ==
    /\ Len(held[c].locks) > 0
    /\ held' = [held EXCEPT ![c] = NoHeld]
    /\ last' = [NoOp EXCEPT !.op = "into_inner", !.c = c,
                            !.before = TxStateOf(c), !.ids = held[c].ids]
    /\ UNCHANGED <<coll, tx, dollarStore, build, mem, cache, thr, returns, log, made>>

\* ------------------------------------------------------- the specification
\* Nothing derived or constructed yet.
NoMade == [what |-> "none"]

MaxThread == 2
Threads == 1..MaxThread
Idle == [pc |-> "idle", P |-> EntityType, proj |-> None, fetched |-> None]

Init ==
    /\ coll = EmptyColl
    /\ tx = [s \in Sessions |-> TxNone]
    /\ dollarStore \in BOOLEAN
    /\ build \in Builds
    /\ mem = [c \in Callers |-> None]
    /\ held = [c \in Callers |-> NoHeld]
    /\ last = NoOp
    /\ cache = EmptyColl
    /\ thr = [t \in Threads |-> Idle]
    /\ returns = {}
    /\ log = NoLog
    /\ made = NoMade

\* Spec: every operation of the library, no session being in a transaction,
\* the plain operations in an execution context without a session, while the
\* other clients modify and delete documents.
Next ==
    \/ \E c \in Clients, mongo \in {Mongo_new} :
        \/ Count(c, mongo)
        \/ Exists(c, mongo)
        \/ Insert(c, mongo)
        \/ InsertMany(c, mongo)
        \/ Update(c, mongo)
        \/ UpdateOne(c, mongo)
        \/ Delete(c, mongo)
        \/ DeleteOne(c, mongo)
        \/ Find(c, mongo)
        \/ FindOne(c, mongo)
        \/ FindOneAndUpdate(c, mongo)
        \/ Patch(c, mongo)
        \/ Remove(c, mongo)
    \/ \E c \in Clients :
        \/ InsertLocked(c)
        \/ InsertManyLocked(c)
        \/ UpdateByIdLocked(c)
        \/ LockById(c)
        \/ FindOneAndUpdateLocked(c)
        \/ FindOneAndLock(c)
        \/ PatchLocked(c)
        \/ IntoInner(c)
    \/ \E o \in Others, mongo \in {Mongo_new} :
        \/ UpdateOne(o, mongo)
        \/ DeleteOne(o, mongo)

Spec == Init /\ [][Next]_vars

\* SpecTxn: the sessions run transactions; the client locks, the others write.
NextTxn ==
    \/ \E s \in Sessions :
        \/ StartTransaction(s)
        \/ CommitTransaction(s)
        \/ AbortTransaction(s)
    \/ \E c \in Clients :
        \/ InsertLocked(c)
        \/ UpdateByIdLocked(c)
        \/ LockById(c)
        \/ FindOneAndLock(c)
        \/ IntoInner(c)
    \/ \E o \in Others : \E mongo \in Mongos(o) :
        \/ UpdateOne(o, mongo)
        \/ DeleteOne(o, mongo)

SpecTxn == Init /\ [][NextTxn]_vars

\* SpecCalls: one client runs every operation, with and without its session,
\* the session being in a transaction or not, and a log is kept of the calls
\* each operation makes on the collection.
InitCalls ==
    LET
        EmptyLog == [on |-> TRUE, n |-> 0, op |-> "none", session |-> NoSession, ok |-> TRUE,
                     err |-> "none", val |-> None, locks |-> <<>>, calls |-> <<>>,
                     given |-> None,
                     tx |-> <<"none", "none">>]
    IN
    /\ coll = EmptyColl
    /\ tx \in {[s \in Sessions |-> IF s \in Clients THEN t ELSE TxNone] :
                 t \in {TxNone, [TxNone EXCEPT !.state = "active"]}}
    /\ dollarStore \in BOOLEAN
    /\ build \in Builds
    /\ mem = [c \in Callers |-> None]
    /\ held = [c \in Callers |-> NoHeld]
    /\ last = NoOp
    /\ cache = EmptyColl
    /\ thr = [t \in Threads |-> Idle]
    /\ returns = {}
    /\ log = EmptyLog
    /\ made = NoMade

NextCalls ==
    \/ \E c \in Clients : \E mongo \in Mongos(c) :
        \/ Count(c, mongo)
        \/ Exists(c, mongo)
        \/ Insert(c, mongo)
        \/ InsertMany(c, mongo)
        \/ Update(c, mongo)
        \/ UpdateOne(c, mongo)
        \/ Delete(c, mongo)
        \/ DeleteOne(c, mongo)
        \/ Find(c, mongo)
        \/ FindWithOpts(c, mongo, {None})
        \/ FindOne(c, mongo)
        \/ FindOneAndUpdate(c, mongo)
        \/ Patch(c, mongo)
        \/ Remove(c, mongo)
    \/ \E c \in Clients :
        \/ InsertLocked(c)
        \/ InsertManyLocked(c)
        \/ UpdateByIdLocked(c)
        \/ LockById(c)
        \/ FindOneAndUpdateLocked(c)
        \/ FindOneAndLock(c)
        \/ PatchLocked(c)

SpecCalls == InitCalls /\ [][NextCalls]_vars

\* SpecSort: the client inserts and deletes records and reads them sorted,
\* under every mapping of one or two keys and every order of the keys.
NextSort ==
    \E c \in Clients : \E mongo \in Mongos(c) :
        \/ Insert(c, mongo)
        \/ Delete(c, mongo)
        \/ FindWithOpts(c, mongo, Sorts)

SpecSort == InitCalls /\ [][NextSort]_vars

\* ------------------------------------------- projection types and threads
\* projection_document up to DOCUMENTS.get: a hit returns the cached document.
ProjLookup(t) ==
    LET
        ProjTypes ==
            LET
                \* Projection types of the entity: their FIELDS and the fields of the struct.
                \* WithId and Card share one field list; ByIdent names the identity by its
                \* Rust identifier.
                WithId == [name |-> "WithId", FIELDS |-> Some(<<"_id", "name">>), idents |-> {"id", "name"}]
                Card == [name |-> "Card", FIELDS |-> Some(<<"_id", "name">>), idents |-> {"id", "name"}]
                NameOnly == [name |-> "NameOnly", FIELDS |-> Some(<<"name">>), idents |-> {"name"}]
                ByIdent == [name |-> "ByIdent", FIELDS |-> Some(<<"id", "name">>), idents |-> {"id", "name"}]
            IN
                     {EntityType, WithId, Card, NameOnly, ByIdent}
        Returned(P, document, how) ==
            [P |-> P.name, fields |-> P.FIELDS[1], doc |-> document, how |-> how]
    IN
    /\ thr[t].pc = "idle"
    /\ \E P \in ProjTypes :
        IF P.FIELDS = None
        THEN /\ thr' = [thr EXCEPT ![t] = [Idle EXCEPT !.pc = "ready", !.P = P]]
             /\ UNCHANGED returns
        ELSE LET hit == cache_get(cache, P.FIELDS[1]) IN
             IF hit # None
             THEN /\ thr' = [thr EXCEPT ![t] =
                                [Idle EXCEPT !.pc = "ready", !.P = P, !.proj = hit]]
                  /\ returns' = returns \cup {Returned(P, hit[1], "hit")}
             ELSE /\ thr' = [thr EXCEPT ![t] = [Idle EXCEPT !.pc = "miss", !.P = P]]
                  /\ UNCHANGED returns
    /\ UNCHANGED <<coll, tx, dollarStore, build, mem, held, last, cache, log, made>>

\* projection_document after a miss: compute, DOCUMENTS.insert, return.
ProjPopulate(t) ==
    LET
        Returned(P, document, how) ==
            [P |-> P.name, fields |-> P.FIELDS[1], doc |-> document, how |-> how]
    IN
    /\ thr[t].pc = "miss"
    /\ LET P == thr[t].P
           document == compute_projection(P.FIELDS[1])
       IN  /\ cache' = cache_insert(cache, P.FIELDS[1], document)
           /\ returns' = returns \cup {Returned(P, document, "computed")}
           /\ thr' = [thr EXCEPT ![t].pc = "ready", ![t].proj = Some(document)]
    /\ UNCHANGED <<coll, tx, dollarStore, build, mem, held, last, log, made>>

\* find_one: the query with the projection document the thread obtained.
ProjFindOne(t) ==
    /\ thr[t].pc = "ready"
    /\ \E id \in Ids :
        LET r == collection_find_one(db, NoSession, Filter_to_document(by_id(id)),
                                     thr[t].proj, Env(FALSE, id))
        IN  thr' = [thr EXCEPT ![t].pc = "done", ![t].fetched = r.val]
    /\ UNCHANGED <<coll, tx, dollarStore, build, mem, held, last, cache, returns,
                   log, made>>

ProjDone(t) ==
    /\ thr[t].pc = "done"
    /\ thr' = [thr EXCEPT ![t] = Idle]
    /\ UNCHANGED <<coll, tx, dollarStore, build, mem, held, last, cache, returns,
                   log, made>>

\* SpecProj: threads read a stored entity through the projection types.
InitProj ==
    /\ coll \in {[id \in {e.id} |-> Serialize(e)] : e \in NewEntities}
    /\ tx = [s \in Sessions |-> TxNone]
    /\ dollarStore \in BOOLEAN
    /\ build \in Builds
    /\ mem = [c \in Callers |-> None]
    /\ held = [c \in Callers |-> NoHeld]
    /\ last = NoOp
    /\ cache = EmptyColl
    /\ thr = [t \in Threads |-> Idle]
    /\ returns = {}
    /\ log = NoLog
    /\ made = NoMade

NextProj ==
    \E t \in Threads :
        \/ ProjLookup(t)
        \/ ProjPopulate(t)
        \/ ProjFindOne(t)
        \/ ProjDone(t)

SpecProj == InitProj /\ [][NextProj]_vars

\* =================================================== the derive's output
\* ---------------------------------------------------- typed filters
\* enum FilterOperator: [op, arg], arg being the sequence of the operands:
\* the one operand of a comparison, or the slice given to In and Nin.
ScalarOperators == {"Eq", "Ne", "Gt", "Gte", "Lt", "Lte"}
SliceOperators == {"In", "Nin"}
Operators == ScalarOperators \cup SliceOperators

\* FilterOperator::to_document: doc! { operator: bson }
FilterOperator_to_document(o) ==
    LET
        \* bson::to_bson: a string as Bson::String, a slice as Bson::Array of them.
        to_bson(val) == [bson |-> "String", v |-> <<val>>]
        to_bson_slice(vals) == [bson |-> "Array", v |-> vals]
    IN
    LET operator == CASE o.op = "Eq" -> "$eq"
                      [] o.op = "Ne" -> "$ne"
                      [] o.op = "Gt" -> "$gt"
                      [] o.op = "Gte" -> "$gte"
                      [] o.op = "Lt" -> "$lt"
                      [] o.op = "Lte" -> "$lte"
                      [] o.op = "In" -> "$in"
                      [] o.op = "Nin" -> "$nin"
    IN  Doc1(operator, IF o.op \in SliceOperators THEN to_bson_slice(o.arg)
                       ELSE to_bson(o.arg[1]))

\* A struct literal `T { a: x, b: y, ..Default::default() }`: the fields
\* written are Set, in whatever order they are written; the others are Omit.
StructLiteral(pairs) ==
    [f \in {pairs[i].ident : i \in DOMAIN pairs} |->
        pairs[CHOOSE i \in DOMAIN pairs : pairs[i].ident = f].value]

\* The values a field of the example entity takes.
FieldValues(f) == IF f = "id" THEN Ids ELSE {"Kit"}
\* Sequences of pairs [ident, value] over distinct fields, the values of a
\* field drawn from values(field).
PairLists(values) ==
    {<<>>}
    \cup {<<[ident |-> f, value |-> v]>> : f \in FieldIdents, v \in UNION {values[g] : g \in FieldIdents}}
    \cup {<<[ident |-> f, value |-> v], [ident |-> g, value |-> w]>> :
             f \in FieldIdents, g \in FieldIdents,
             v \in UNION {values[h] : h \in FieldIdents},
             w \in UNION {values[h] : h \in FieldIdents}}

WellTyped(pairs, values) ==
    /\ \A i \in DOMAIN pairs : pairs[i].value \in values[pairs[i].ident]
    /\ \A i \in DOMAIN pairs, j \in DOMAIN pairs : i # j => pairs[i].ident # pairs[j].ident

\* ------------------------------------------------ the shorthand macros
\* The expression after `field:` in filter! and update!: a literal, or a
\* call of a function named by a bare identifier.
Lit(v) == [expr |-> "lit", v |-> v]
Call(func, args) == [expr |-> "call", func |-> func, args |-> args]
Exprs ==
    {Lit("Kit")}
    \cup {Call(func, <<Lit("Kit")>>) : func \in Operators \cup {"Some"}}
    \cup {Call("Eq", <<Lit("Kit"), Lit("Tom")>>)}

\* func_construct_filter.rs, Field::parse, treating every expression as a value.
parse_as_value(ident, operator_or_value) ==
    [ident |-> ident, operator |-> None, value |-> operator_or_value]

\* func_construct_filter.rs, impl Parse for Field
Field_parse(ident, operator_or_value) ==
    LET operator_and_operand ==
            IF /\ operator_or_value.expr = "call"
               /\ operator_or_value.func \in
                    {"Eq", "Ne", "Gt", "Gte", "Lt", "Lte", "In", "Nin"}
               /\ Len(operator_or_value.args) = 1
            THEN Some(<<operator_or_value.func, operator_or_value.args[1]>>)
            ELSE None
    IN  IF operator_and_operand # None
        THEN [ident |-> ident, operator |-> Some(operator_and_operand[1][1]),
              value |-> operator_and_operand[1][2]]
        ELSE [ident |-> ident, operator |-> None, value |-> operator_or_value]

\* ------------------------------------------------------- derive_entity
IdError == "id field must have serde rename _id"
NoIdError == "an entity must have an id field"

\* An index key whose direction is not looked at.
key_of_any_direction(fields, k) ==
    IF k.key \notin fields THEN "unknown field" ELSE "none"

\* The check of one key of an index: "none" or the error.
IndexKeyError(fields, k) ==
    IF k.key \notin fields THEN "unknown field"
    ELSE IF k.direction < -128 \/ k.direction > 127 THEN "number too large to fit in target type"
    ELSE IF k.direction \notin {1, -1} THEN "index direction must be 1 or -1"
    ELSE "none"

\* ------------------------------------------------ SpecDerive: the actions
Made(m) ==
    /\ made' = m
    /\ UNCHANGED <<coll, tx, dollarStore, build, mem, held, last, cache, thr,
                   returns, log>>

\* A program builds a TypedFilter and the library serializes it.
FilterToDocument ==
    LET
        \* impl Filter for TypedFilter: the i-th field identifier is written under
        \* the i-th literal.
        TypedFilter_to_document(b, f) ==
            LET
                \* A TypedFilter is the function from its Set fields to their operators.
                RECURSIVE TypedFilterFrom(_, _, _, _)
                TypedFilterFrom(b1, f1, i, d) ==
                    IF i > Len(b1.field_idents) THEN d
                    ELSE TypedFilterFrom(b1, f1, i + 1,
                            IF b1.field_idents[i] \in DOMAIN f1
                            THEN DocInsert(d, b1.field_lits[i], FilterOperator_to_document(f1[b1.field_idents[i]]))
                            ELSE d)
            IN
                                         TypedFilterFrom(b, f, 1, EmptyDoc)
        FilterValues(f) ==
            {[op |-> o, arg |-> <<v>>] : o \in ScalarOperators, v \in FieldValues(f)}
            \cup {[op |-> o, arg |-> <<v>>] : o \in SliceOperators, v \in FieldValues(f)}
    IN
    /\ made = NoMade
    /\ \E pairs \in PairLists([f \in FieldIdents |-> FilterValues(f)]) :
           /\ WellTyped(pairs, [f \in FieldIdents |-> FilterValues(f)])
           /\ Made([what |-> "Filter::to_document", pairs |-> pairs,
                    doc |-> TypedFilter_to_document(build, StructLiteral(pairs))])

\* A program builds a TypedUpdate and the library serializes it.
UpdateToDocument ==
    /\ made = NoMade
    /\ \E pairs \in PairLists([f \in FieldIdents |-> FieldValues(f)]) :
           /\ WellTyped(pairs, [f \in FieldIdents |-> FieldValues(f)])
           /\ Made([what |-> "Update::to_document", pairs |-> pairs,
                    doc |-> TypedUpdate_to_document(build, StructLiteral(pairs))])

\* A program renders a variant of Fields.
RenderField ==
    LET
        String_from_Fields(b, value) == Fields_to_string(b, value)
    IN
    /\ made = NoMade
    /\ \E i \in DOMAIN Fields_variants(build) :
           LET variant == Fields_variants(build)[i]
           IN  Made([what |-> "Fields", variants |-> Fields_variants(build),
                     variant |-> variant,
                     display |-> Fields_to_string(build, variant),
                     string |-> String_from_Fields(build, variant)])

\* filter! { .. } and update! { .. } are expanded.
ExprPairs == PairLists([f \in FieldIdents |-> Exprs])

ConstructFilter ==
    LET
        \* func_construct_filter.rs, build: module::TypedFilter { fields, ..default }
        construct_filter(input) ==
            StructLiteral(
                [i \in DOMAIN input |->
                    LET field == Field_parse(input[i].ident, input[i].value)
                        operator == IF field.operator = None THEN "Eq" ELSE field.operator[1]
                    IN  [ident |-> field.ident,
                         value |-> [op |-> operator, arg |-> <<field.value>>]]])
    IN
    /\ made = NoMade
    /\ \E input \in ExprPairs :
           /\ WellTyped(input, [f \in FieldIdents |-> Exprs])
           /\ Made([what |-> "filter!", input |-> input, out |-> construct_filter(input)])

ConstructUpdate ==
    LET
        \* func_construct_update.rs, build: module::TypedUpdate { fields, ..default }
        construct_update(input) ==
            StructLiteral([i \in DOMAIN input |->
                             [ident |-> input[i].ident, value |-> input[i].value]])
    IN
    /\ made = NoMade
    /\ \E input \in ExprPairs :
           /\ WellTyped(input, [f \in FieldIdents |-> Exprs])
           /\ Made([what |-> "update!", input |-> input, out |-> construct_update(input)])

\* The structs #[derive(Entity)] is written on.
DeriveInputs ==
    LET
        \* A field is [ident, serde]; serde tells what its #[serde(..)] attributes
        \* hold: rename, the value of `rename = ".."` if there is one; others,
        \* whether any other serde option is written.
        SerdeShapes ==
            {[rename |-> r, others |-> o] : r \in {None, Some("_id"), Some("ident")},
                                            o \in BOOLEAN}
        IdFields == {[ident |-> "id", serde |-> s] : s \in SerdeShapes}
        NameFields ==
            {[ident |-> "name", serde |-> s] :
                s \in {[rename |-> None, others |-> FALSE], [rename |-> Some("ident"), others |-> FALSE],
                       [rename |-> Some("_id"), others |-> FALSE]}}
        FieldLists ==
            {<<n>> : n \in NameFields} \cup {<<i>> : i \in IdFields}
            \cup {<<i, n>> : i \in IdFields, n \in NameFields}
        \* #[entity(projections(P(..)), indexes(i(keys(k = d), options = ..)))]:
        \* projections is a sequence of [ident, fields]; indexes is None when the
        \* attribute is not written, else a sequence of [name, keys], keys being a
        \* sequence of [key, direction].
        ProjectionLists ==
            {<<>>} \cup {<<[ident |-> "Profile", fields |-> fs]>> :
                            fs \in {<<>>, <<"id">>, <<"name">>, <<"email">>}}
        Directions == {1, -1, 0, 2, 300}
        IndexLists ==
            {None, Some(<<>>)}
            \cup {Some(<<[name |-> "by_key", keys |-> <<[key |-> k, direction |-> d]>>]>>) :
                     k \in {"id", "name", "email"}, d \in Directions}
    IN
    [ident : {EntityIdent, "name"}, fields : FieldLists,
     projections : ProjectionLists, indexes : IndexLists]

\* derive_entity: what the derive emits for a struct, or its error.
derive_entity(input) ==
    LET
        \* The loop over the named fields: the first error, or "none".
        \* utils.rs extract_serde_rename on a field: SerdeAttribute has the one
        \* field rename, required, and takes no other; an attribute list it cannot
        \* parse is `.ok()` None.
        SerdeAttribute_rename(field) ==
            IF field.serde.rename # None /\ ~field.serde.others
            THEN Some(field.serde.rename[1])
            ELSE None
        RECURSIVE FieldsLoop(_, _, _)
        FieldsLoop(named, i, has_id) ==
            IF i > Len(named) THEN (IF has_id THEN "none" ELSE NoIdError)
            ELSE LET rename == SerdeAttribute_rename(named[i]) IN
                 IF named[i].ident = "id"
                 THEN IF rename = None THEN IdError
                      ELSE IF rename[1] # "_id" THEN IdError
                      ELSE FieldsLoop(named, i + 1, TRUE)
                 ELSE FieldsLoop(named, i + 1, has_id)
        Rejected(err) == [ok |-> FALSE, err |-> err, items |-> {}, projections |-> <<>>,
                          indexes |-> <<>>, submitted |-> <<>>]
    IN
    LET
        \* Attributes::from_attributes: projections default to none, indexes are required.
        Attributes_from_attributes(input2) ==
            IF input2.indexes = None THEN [ok |-> FALSE, err |-> "missing field indexes"]
            ELSE [ok |-> TRUE, err |-> "none",
                  projections |-> input2.projections, indexes |-> input2.indexes[1]]
        \* The check of a projection: "none" or the error.
        ProjectionError(fields, projection) ==
            IF \E i \in DOMAIN projection.fields : projection.fields[i] \notin fields
            THEN "unknown field" ELSE "none"
        FirstError(errors) ==
            IF \E i \in DOMAIN errors : errors[i] # "none"
            THEN errors[CHOOSE i \in DOMAIN errors :
                            errors[i] # "none" /\ \A j \in 1..(i - 1) : errors[j] = "none"]
            ELSE "none"
        Flatten(seqs) ==
            LET RECURSIVE Cat(_)
                Cat(i) == IF i > Len(seqs) THEN <<>> ELSE seqs[i] \o Cat(i + 1)
            IN  Cat(1)
        \* build, the fields of a projection struct: `fields.get(ident).unwrap()`
        \* looks the entity's identifier up among the field identifiers.
        BuildPanics(ident, fields, projections) ==
            \E i \in DOMAIN projections : Len(projections[i].fields) > 0 /\ ident \notin fields
        \* What the derive hands to the compiler: the items of the helper module,
        \* or a compile error and nothing else.
        Emitted(input1) ==
            {"impl Entity", "impl Selectable", "impl SelectableWithId", "TypedFilter",
             "TypedUpdate", "impl UpdateApply", "Fields", "filter!", "update!"}
            \cup {input1.projections[i].ident : i \in DOMAIN input1.projections}
        \* build, collection_name: the identifier in snake case, without a
        \* trailing `_entity`.
        collection_name(ident) ==
            CASE ident = "User" -> "user"
              [] ident = "name" -> "name"
        \* build, field_lits_by_ident: the rename of the field, or else the
        \* identifier of the entity.
        field_lit(input1, f) ==
            LET field == input1.fields[CHOOSE i \in DOMAIN input1.fields :
                                          input1.fields[i].ident = f]
            IN  IF SerdeAttribute_rename(field) # None
                THEN SerdeAttribute_rename(field)[1] ELSE input1.ident
        \* build, projection_impls, for one ProjectionConfig: every field of the
        \* struct takes its type and rename from `fields.get(ident)`, ident being
        \* the identifier of the entity (of: the field that config belongs to);
        \* FIELDS holds the literals of the projected fields; SelectableWithId is
        \* implemented when has_id; UpdateApply assigns the projected fields.
        projection_impl(input1, p) ==
            LET field_config ==
                    input1.fields[CHOOSE i \in DOMAIN input1.fields :
                                     input1.fields[i].ident = input1.ident]
            IN  [ident |-> p.ident,
                 fields |-> [j \in DOMAIN p.fields |->
                               [ident |-> p.fields[j], of |-> field_config.ident,
                                rename |-> SerdeAttribute_rename(field_config)]],
                 FIELDS |-> Some([j \in DOMAIN p.fields |-> field_lit(input1, p.fields[j])]),
                 has_id |-> \E j \in DOMAIN p.fields : p.fields[j] = "id",
                 applies |-> {p.fields[j] : j \in DOMAIN p.fields}]
    IN
    LET attributes == Attributes_from_attributes(input)
        fields == {input.fields[i].ident : i \in DOMAIN input.fields}
        field_error == FieldsLoop(input.fields, 1, FALSE)
        projection_error ==
            FirstError([i \in DOMAIN attributes.projections |->
                          ProjectionError(fields, attributes.projections[i])])
        index_error ==
            FirstError(Flatten([i \in DOMAIN attributes.indexes |->
                          [j \in DOMAIN attributes.indexes[i].keys |->
                              IndexKeyError(fields, attributes.indexes[i].keys[j])]]))
    IN  IF ~attributes.ok THEN Rejected(attributes.err)
        ELSE IF field_error # "none" THEN Rejected(field_error)
        ELSE IF projection_error # "none" THEN Rejected(projection_error)
        ELSE IF index_error # "none" THEN Rejected(index_error)
        ELSE IF BuildPanics(input.ident, fields, attributes.projections)
             THEN Rejected("proc-macro derive panicked")
        ELSE [ok |-> TRUE, err |-> "none", items |-> Emitted(input),
              COLLECTION_NAME |-> collection_name(input.ident),
              \* field_lits_by_ident: the key each field is written under
              field_lits |-> [f \in fields |-> field_lit(input, f)],
              projections |-> [i \in DOMAIN attributes.projections |->
                                 projection_impl(input, attributes.projections[i])],
              \* fn indexes() -> &'static [IndexModel] { &[] }, and no
              \* inventory::submit! of an EntityMetadataWrapper
              indexes |-> <<>>, submitted |-> <<>>]

\* #[derive(Entity)] is expanded on a struct.
DeriveEntity ==
    /\ made = NoMade
    /\ \E input \in DeriveInputs :
           /\ Len(input.fields) > 0
           /\ Made([what |-> "derive", input |-> input, out |-> derive_entity(input)])

\* A program applies a TypedUpdate to a value in memory: the entity (every
\* field) or a projection (the projected fields).
ApplyUpdate ==
    LET
        Values(f) == IF f = "id" THEN {"X", "Y"} ELSE {"Kit", "Tom"}
        \* The values of a shape, and the Set fields of an update.
        Typed(shape) == {r \in [shape -> {"X", "Y", "Kit", "Tom"}] :
                            \A f \in shape : r[f] \in Values(f)}
    IN
    /\ made = NoMade
    /\ \E shape \in SUBSET FieldIdents, set \in SUBSET FieldIdents :
           \E p \in Typed(shape), u \in Typed(set) :
               Made([what |-> "UpdateApply::apply", update |-> u, target |-> p,
                     out |-> UpdateApply_apply([kind |-> "typed", doc |-> EmptyDoc,
                                                set |-> u], p)])

\* SpecDerive: what the derive and the macros produce, under every build.
\* Each of them is a function of its input alone: a run applies one.
NextDerive ==
    \/ FilterToDocument
    \/ UpdateToDocument
    \/ RenderField
    \/ ConstructFilter
    \/ ConstructUpdate
    \/ DeriveEntity
    \/ ApplyUpdate

SpecDerive == Init /\ [][NextDerive]_vars

\* ------------------------------------------------- the entity registry
\* meta.rs.  The registry is what inventory collects at link time: one
\* EntityMetadata [collection_name, indexes] per inventory::submit!, indexes
\* being what its indexes_ptr returns.
MaxEntries == 2

\* An enforce_indexes that goes on after an error and reports the first one
\* at the end.
enforce_indexes_continuing(mongo, registry, failing) ==
    [ok |-> failing = {},
     err |-> IF failing = {} THEN "none" ELSE "create_indexes",
     calls |-> [i \in DOMAIN registry |->
                  [call |-> "create_indexes", db |-> mongo.db,
                   collection |-> registry[i].collection_name,
                   indexes |-> registry[i].indexes,
                   session |-> NoSession, ok |-> i \notin failing]],
     created |-> <<>>]

\* enforce_indexes, on the entries entity_metadata() iterates over.  failing:
\* the positions whose create_indexes the server answers with an error.
\* The result is [ok, err, calls, created]: calls are the create_indexes
\* calls made, none with a session; created, the collections whose indexes
\* the server built.
enforce_indexes(mongo, registry, failing) ==
    LET
        RECURSIVE Loop(_, _, _)
        Loop(i, calls, created) ==
            IF i > Len(registry)
            THEN [ok |-> TRUE, err |-> "none", calls |-> calls, created |-> created]
            ELSE LET metadata == registry[i]
                     call == [call |-> "create_indexes", db |-> mongo.db,
                              collection |-> metadata.collection_name,
                              indexes |-> metadata.indexes,
                              session |-> NoSession, ok |-> i \notin failing]
                 IN  IF i \in failing
                     THEN [ok |-> FALSE, err |-> "create_indexes",
                           calls |-> Append(calls, call), created |-> created]
                     ELSE Loop(i + 1, Append(calls, call),
                               Append(created, metadata.collection_name))
    IN  Loop(1, <<>>, <<>>)

\* A program declares its entities with the derive, other linked code may
\* submit entries of its own, and enforce_indexes runs once at start-up.
EnforceIndexes ==
    LET
        \* The programs: no entity, or one struct the derive accepts.
        Programs ==
            {<<>>} \cup {<<input>> : input \in {d \in DeriveInputs :
                                                  /\ Len(d.fields) > 0
                                                  /\ d.projections = <<>>
                                                  /\ derive_entity(d).ok}}
        IndexModels == {<<>>, <<[name |-> None, keys |-> <<[key |-> "id", direction |-> 1]>>]>>}
        Entries == [collection_name : {"user", "post"}, indexes : IndexModels]
        Linked == UNION {[1..n -> Entries] : n \in 0..MaxEntries}
        \* entity_metadata: the entries the derives submitted, then the others.
        RECURSIVE Submitted(_, _)
        Submitted(program, i) ==
            IF i > Len(program) THEN <<>>
            ELSE derive_entity(program[i]).submitted \o Submitted(program, i + 1)
        entity_metadata(program, linked) == Submitted(program, 1) \o linked
    IN
    /\ made = NoMade
    /\ \E program \in Programs, linked \in Linked,
          mongo \in {Mongo_new, Mongo_new_with_session(1)} :
         \E failing \in SUBSET (1..Len(entity_metadata(program, linked))) :
           Made([what |-> "enforce_indexes", program |-> program,
                 registry |-> entity_metadata(program, linked),
                 mongo |-> mongo, failing |-> failing,
                 out |-> enforce_indexes(mongo, entity_metadata(program, linked),
                                         failing)])

\* SpecMeta: a program of derived entities starts up and enforces its
\* indexes, each create_indexes succeeding or failing.
NextMeta ==
    \/ EnforceIndexes

SpecMeta == Init /\ [][NextMeta]_vars

\* ================================================================ claims
\* C1: when the write of patch returns an error, patch returns the error and
\* the value in memory is what it was before the call; the write-back runs at
\* most once, and only after the write succeeded.
C1_PatchErrorKeepsMemory ==
    [][/\ (last'.op = "patch" /\ ~last'.ok) => (mem' = mem /\ last'.applied = 0)
       /\ last'.op = "patch" => (last'.applied <= 1 /\ (last'.applied = 1 => last'.ok))
      ]_vars

\* C1 happens: a patch with a TypedUpdate has returned an error.
C1_Witness ==
    /\ last.op = "patch"
    /\ ~last.ok
    /\ last.kind = "typed"
    /\ mem[last.c] # None

\* C2: right after a successful patch a document with the held identity is
\* stored and agrees with the value in memory on every field the update set.
C2_PatchedAgree ==
    (last.op = "patch" /\ last.ok) =>
        LET self == mem[last.c][1] IN
        /\ self.id \in DOMAIN coll
        /\ \A f \in last.set : coll[self.id][SerdeName(f)] = self[f]

\* C3: every Lock a locking operation returns inside a transaction stands
\* for a document that exists and that the transaction has written to.
C3_LockedWasWritten ==
    LET
        LockingOps == {"insert_locked", "insert_many_locked", "update_by_id_locked",
                       "lock_by_id", "find_one_and_lock", "find_one_and_update_locked",
                       "patch_locked"}
    IN
    (last.op \in LockingOps /\ last.ok /\ last.before = "active") =>
        \A id \in last.ids :
            /\ id \in DOMAIN tx[last.c].view
            /\ id \in tx[last.c].writes

\* C4: when a transaction got a Lock on an existing document by lock_by_id or
\* find_one_and_lock and another transaction wrote to that document while the
\* first was open, the two have not both committed.
C4_LockExcludesWriters ==
    \A s \in Sessions, t \in Sessions, id \in Ids :
        (s # t /\ tx[s].state = "committed" /\ tx[t].state = "committed"
              /\ id \in tx[s].locked)
            => <<id, s>> \notin tx[t].conc

\* C4 happens: the locking transaction committed, and the other one, which
\* wrote to the locked document meanwhile, was refused.
C4_Witness ==
    /\ tx[1].state = "committed"
    /\ tx[2].state = "failed"
    /\ \E id \in tx[1].locked : <<id, 1>> \in tx[2].conc

\* C5: no Lock obtained in a transaction is still held once that transaction
\* has committed or aborted.
C5_NoLockOutlives ==
    \A c \in Callers :
        (Len(held[c].locks) > 0 /\ held[c].during = "active")
            => tx[c].state \notin {"committed", "aborted"}

\* C6: a locking operation runs only on a session whose transaction was
\* started and has neither committed nor aborted.
C6_LockingInTransaction ==
    LET
        LockingOps == {"insert_locked", "insert_many_locked", "update_by_id_locked",
                       "lock_by_id", "find_one_and_lock", "find_one_and_update_locked",
                       "patch_locked"}
    IN
    last.op \in LockingOps => last.before = "active"

\* C7: the Locks a caller holds were returned by a locking operation, never
\* by a plain one.
C7_LocksFromLockingOps ==
    LET
        LockingOps == {"insert_locked", "insert_many_locked", "update_by_id_locked",
                       "lock_by_id", "find_one_and_lock", "find_one_and_update_locked",
                       "patch_locked"}
    IN
    \A c \in Callers : Len(held[c].locks) > 0 => held[c].by \in LockingOps

\* C7 happens: a plain operation returned a value and left the caller, who
\* holds Locks from before, with just those.
C7_Witness ==
    /\ last.op = "find_one"
    /\ last.ok
    /\ mem[last.c] # None
    /\ Len(held[last.c].locks) > 0

\* C8: for a field list that names the identity `_id`, the projection
\* document includes each other listed field and does not carry the entry
\* projection_document writes to exclude the identity, and a read through
\* it returns the identity and the listed fields, no others.
C8_ListedIdentityKept ==
    LET
        ListedIdentity(fields) == "_id" \in Range(fields)
    IN
    /\ \A r \in returns :
        ListedIdentity(r.fields) =>
            /\ \A f \in Range(r.fields) \ {"_id"} : f \in DOMAIN r.doc /\ r.doc[f] = 1
            /\ "_id" \in DOMAIN r.doc => r.doc["_id"] # -1
    /\ \A t \in Threads :
        (thr[t].pc = "done" /\ thr[t].fetched # None /\ thr[t].P.FIELDS # None) =>
            (ListedIdentity(thr[t].P.FIELDS[1]) =>
                DOMAIN thr[t].fetched[1] = Range(thr[t].P.FIELDS[1]))

\* C9: for a field list without the identity, the projection document
\* includes each listed field and excludes `_id` with a value the server
\* reads as an exclusion, and a read through it does not return the identity.
C9_UnlistedIdentityExcluded ==
    LET
        NoIdentity(fields) == "_id" \notin Range(fields) /\ "id" \notin Range(fields)
    IN
    /\ \A r \in returns :
        NoIdentity(r.fields) =>
            /\ \A f \in Range(r.fields) : f \in DOMAIN r.doc /\ r.doc[f] = 1
            /\ "_id" \in DOMAIN r.doc /\ ~Truthy(r.doc["_id"])
    /\ \A t \in Threads :
        (thr[t].pc = "done" /\ thr[t].fetched # None /\ thr[t].P.FIELDS # None) =>
            (NoIdentity(thr[t].P.FIELDS[1]) => "_id" \notin DOMAIN thr[t].fetched[1])

\* C10: every call of projection_document for one field list returns an equal
\* document, the one computed from the field list alone, whichever type
\* called and whichever call filled the cache.
C10_SameListSameDocument ==
    \A r1 \in returns, r2 \in returns :
        r1.fields = r2.fields =>
            /\ r1.doc = r2.doc
            /\ r1.doc = compute_projection(r1.fields)

\* C10 happens: two types with one field list both missed the cache and
\* computed the entry, and a later call hit it.
C10_Witness ==
    \E r1 \in returns, r2 \in returns, r3 \in returns :
        /\ r1.fields = r2.fields /\ r2.fields = r3.fields
        /\ r1.P # r2.P
        /\ r1.how = "computed" /\ r2.how = "computed"
        /\ r3.how = "hit"

\* C11: in find_with_opts the sort document sent to the database lists the
\* keys of a mapping of two or more keys in the order the caller inserted
\* them, each as the field's wire name with 1 for Asc and -1 for Desc.
C11_SortInInsertionOrder ==
    LET
        \* The wire name of the field a variant of Fields was generated from.
        WireOf(variant) ==
            SerdeName(CHOOSE f \in FieldIdents : to_upper_camel_case(f) = variant)
        \* The sort document that lists the given entries in the order given.
        AsGiven(entries) ==
            [i \in DOMAIN entries |->
                [k |-> WireOf(entries[i].k), v |-> IF entries[i].v = "Asc" THEN 1 ELSE -1]]
    IN
    (/\ log.on
     /\ log.op = "find_with_opts"
     /\ log.given # None
     /\ Len(log.given[1]) >= 2)
    => log.calls[1].sort = Some(AsGiven(log.given[1]))

\* C12: every call an operation makes on the collection is bound to the
\* session of the execution context it was given, and is standalone when
\* the context has none; Mongo::rb, Transaction::rb and the conversion of a
\* Transaction into a Mongo keep the handle and the session, so the calls of
\* a locking operation are bound to the session of its Transaction.
C12_CallsBoundToSession ==
    LET
        LockingOps == {"insert_locked", "insert_many_locked", "update_by_id_locked",
                       "lock_by_id", "find_one_and_lock", "find_one_and_update_locked",
                       "patch_locked"}
    IN
    /\ log.on =>
        /\ \A i \in DOMAIN log.calls : log.calls[i].session = log.session
        /\ log.op \in LockingOps =>
            /\ log.session # NoSession
            /\ Len(log.calls) > 0
    /\ \A c \in Callers :
        /\ \A mongo \in Mongos(c) : Mongo_rb(mongo) = mongo
        /\ Transaction_rb(Transaction_new(c)) = Transaction_new(c)
        /\ Mongo_from_Transaction(Transaction_new(c)) = Mongo_new_with_session(c)

\* A plain operation given a session in a transaction made its call, and
\* a locking operation made its call.
C12_Witness ==
    /\ log.on
    /\ log.op = "find_one"
    /\ log.session # NoSession
    /\ log.tx[1] = "active"
    /\ Len(log.calls) = 1
    /\ log.calls[1].ok
    /\ held[log.session].by = "lock_by_id"

\* C13: when a call on the collection fails the operation returns that very
\* error and makes no further call; an operation that returns Ok made no
\* call that failed; and an operation only makes calls on the collection:
\* it leaves the transaction of its session in the state it found it in,
\* unless the server aborted it on the failed call.
C13_ErrorsPropagate ==
    LET
        \* The calls the driver offers on a collection.
        CollectionCalls == {"count_documents", "insert_one", "insert_many", "update_one",
                            "update_many", "delete_one", "delete_many", "find", "find_one",
                            "find_one_and_update"}
    IN
    log.on =>
        /\ \A i \in DOMAIN log.calls :
            /\ log.calls[i].call \in CollectionCalls
            /\ ~log.calls[i].ok =>
                /\ i = Len(log.calls)
                /\ ~log.ok
                /\ log.err = log.calls[i].err
                /\ log.val = None
        /\ log.ok => log.err = "none"
        /\ ~log.ok => \E i \in DOMAIN log.calls : ~log.calls[i].ok
        /\ log.tx[2] # log.tx[1] =>
            /\ log.tx = <<"active", "failed">>
            /\ ~log.ok

\* An insert in a transaction met a duplicate key: the call failed, the
\* operation returned its error, and the server aborted the transaction.
C13_Witness ==
    /\ log.on
    /\ log.op = "insert"
    /\ ~log.ok
    /\ log.err = "duplicate_key"
    /\ Len(log.calls) = 1
    /\ log.calls[1].err = "duplicate_key"
    /\ log.tx = <<"active", "failed">>

\* C14: a read whose filter matches no document returns Ok with the empty
\* sequence (find, find_with_opts), None (find_one, find_one_and_update),
\* 0 (count) or false (exists), unless its call was stopped for a reason of
\* its own; and in every state exists answers what count > 0 answers.
C14_AbsenceIsNoError ==
    LET
        \* The operations that read, and what each returns when nothing matches.
        Readers == {"find", "find_with_opts", "find_one", "find_one_and_update",
                    "count", "exists"}
        NothingFound(op, val) ==
            CASE op \in {"find", "find_with_opts"} -> val = <<>>
              [] op \in {"find_one", "find_one_and_update"} -> val = None
              [] op = "count" -> val = 0
              [] op = "exists" -> val = FALSE
        \* What makes a call fail whatever the collection holds: the connection, a
        \* transaction the server has aborted, an update document the driver refuses.
        Stopped == {"network", "no_transaction", "invalid_update"}
    IN
    /\ (/\ log.on
        /\ log.op \in Readers
        /\ log.calls[1].matched = 0
        /\ log.err \notin Stopped)
       => /\ log.ok
          /\ NothingFound(log.op, log.val)
    /\ \A c \in Clients : \A mongo \in Mongos(c) :
         \A filter \in Filters \cup {UntypedFilter(EmptyDoc)}, fail \in BOOLEAN :
            LET e == Entity_exists(db, mongo, filter, Env(fail, IdPool[1]))
                n == Entity_count(db, mongo, filter, Env(fail, IdPool[1]))
            IN  /\ e.ok = n.ok
                /\ e.err = n.err
                /\ e.ok => (e.val <=> n.val > 0)

\* find_one in a transaction whose snapshot lacks the document that is in
\* the collection: Ok(None).
C14_Witness ==
    /\ log.on
    /\ log.op = "find_one"
    /\ log.calls[1].matched = 0
    /\ log.ok
    /\ log.val = None
    /\ log.tx[1] = "active"
    /\ DOMAIN coll # {}

\* C15: the document of a TypedFilter has one key for each field that is
\* Set, the field's own wire name, mapped to the operator document of that
\* field; the fields that are Omit give no key and the default filter gives
\* the empty document.
C15_FilterKeysAreWireNames ==
    LET
        \* The fields a list of pairs sets, and the value it gives to one of them.
        SetBy(pairs) == {pairs[i].ident : i \in DOMAIN pairs}
        GivenTo(pairs, f) == pairs[CHOOSE i \in DOMAIN pairs : pairs[i].ident = f].value
        FieldOfWire(k) == CHOOSE f \in FieldIdents : SerdeName(f) = k
    IN
    made.what = "Filter::to_document" =>
        made.doc = [k \in {SerdeName(f) : f \in SetBy(made.pairs)} |->
                      FilterOperator_to_document(GivenTo(made.pairs, FieldOfWire(k)))]

\* C16: the document of a TypedUpdate has one pair for each field that is
\* Set, the field's own wire name with the value given to that field; the
\* fields that are Omit give no key, the default update gives the empty
\* document, and the order in which the fields were written does not matter.
C16_UpdateKeysAreWireNames ==
    LET
        \* The fields a list of pairs sets, and the value it gives to one of them.
        SetBy(pairs) == {pairs[i].ident : i \in DOMAIN pairs}
        GivenTo(pairs, f) == pairs[CHOOSE i \in DOMAIN pairs : pairs[i].ident = f].value
        FieldOfWire(k) == CHOOSE f \in FieldIdents : SerdeName(f) = k
    IN
    made.what = "Update::to_document" =>
        /\ made.doc = [k \in {SerdeName(f) : f \in SetBy(made.pairs)} |->
                         GivenTo(made.pairs, FieldOfWire(k))]
        /\ \A p \in Perms(DOMAIN made.pairs) :
             TypedUpdate_to_document(build,
                 StructLiteral([i \in DOMAIN made.pairs |-> made.pairs[p[i]]])) = made.doc

\* C17: Fields has one variant for each declared field, and each variant
\* renders, by Display and by the conversion to String, as the wire name of
\* the field it was generated from.
C17_VariantsRenderWireNames ==
    LET
        \* The wire name of the field a variant of Fields was generated from.
        WireOf(variant) ==
            SerdeName(CHOOSE f \in FieldIdents : to_upper_camel_case(f) = variant)
    IN
    made.what = "Fields" =>
        /\ Len(made.variants) = Cardinality(FieldIdents)
        /\ Range(made.variants) = {to_upper_camel_case(f) : f \in FieldIdents}
        /\ made.display = WireOf(made.variant)
        /\ made.string = WireOf(made.variant)

\* C18: filter! turns `field: value` into Set(Eq(value)) and `field:
\* Op(value)` into Set(Op(value)) for the eight operators; update! turns
\* `field: value` into Set(value); the fields not mentioned are Omit.
C18_ShorthandsExpand ==
    LET
        \* The fields a list of pairs sets, and the value it gives to one of them.
        SetBy(pairs) == {pairs[i].ident : i \in DOMAIN pairs}
        \* What the shorthand `field: e` stands for in filter!: the operator and its
        \* operand when e is Op(value), Op one of the eight; Eq of e otherwise.
        IsOperatorCall(e) ==
            /\ e.expr = "call"
            /\ e.func \in Operators
            /\ Len(e.args) = 1
        ShorthandOperator(e) ==
            IF IsOperatorCall(e) THEN [op |-> e.func, arg |-> <<e.args[1]>>]
            ELSE [op |-> "Eq", arg |-> <<e>>]
    IN
    /\ made.what = "filter!" =>
        /\ DOMAIN made.out = SetBy(made.input)
        /\ \A i \in DOMAIN made.input :
             made.out[made.input[i].ident] = ShorthandOperator(made.input[i].value)
    /\ made.what = "update!" =>
        /\ DOMAIN made.out = SetBy(made.input)
        /\ \A i \in DOMAIN made.input :
             made.out[made.input[i].ident] = made.input[i].value

\* filter! { id: "Kit", name: Ne("Kit") } was expanded.
C18_Witness ==
    /\ made.what = "filter!"
    /\ made.input = <<[ident |-> "id", value |-> Lit("Kit")],
                      [ident |-> "name", value |-> Call("Ne", <<Lit("Kit")>>)]>>
    /\ made.out["id"] = [op |-> "Eq", arg |-> <<Lit("Kit")>>]
    /\ made.out["name"] = [op |-> "Ne", arg |-> <<Lit("Kit")>>]

\* C19: the derive is rejected and emits nothing when the struct has no
\* `id` field or its `id` field is not renamed to `_id`; and a struct whose
\* `id` field is renamed to `_id` passes the check of the `id` field.
C19_IdCheck ==
    LET
        \* Whether the struct has an `id` field renamed to `_id`, and whether it has
        \* one that is not.
        IdRenamed(input) ==
            \E i \in DOMAIN input.fields :
                /\ input.fields[i].ident = "id"
                /\ input.fields[i].serde.rename = Some("_id")
        IdNotRenamed(input) ==
            \A i \in DOMAIN input.fields :
                input.fields[i].ident = "id" => input.fields[i].serde.rename # Some("_id")
    IN
    made.what = "derive" =>
        /\ IdNotRenamed(made.input) => (~made.out.ok /\ made.out.items = {})
        /\ IdRenamed(made.input) => made.out.err \notin {IdError, NoIdError}

\* C20: the derive is rejected when a projection or an index names a field
\* the struct does not declare, or an index direction is neither 1 nor -1;
\* so every accepted struct declares the fields of its projections and of
\* its indexes.
C20_ProjectionsAndIndexes ==
    LET
        \* The fields the projections and the indexes of an input name, and the
        \* directions of its index keys.
        Declared(input) == {input.fields[i].ident : i \in DOMAIN input.fields}
        ProjectedFields(input) ==
            UNION {Range(input.projections[i].fields) : i \in DOMAIN input.projections}
        IndexKeys(input) ==
            IF input.indexes = None THEN {}
            ELSE UNION {Range(input.indexes[1][i].keys) : i \in DOMAIN input.indexes[1]}
    IN
    made.what = "derive" =>
        /\ (\/ ~(ProjectedFields(made.input) \subseteq Declared(made.input))
            \/ \E k \in IndexKeys(made.input) :
                 k.key \notin Declared(made.input) \/ k.direction \notin {1, -1})
           => (~made.out.ok /\ made.out.items = {})
        /\ made.out.ok =>
            /\ ProjectedFields(made.input) \subseteq Declared(made.input)
            /\ {k.key : k \in IndexKeys(made.input)} \subseteq Declared(made.input)

\* A struct whose index names a declared field with direction 0 was
\* rejected for the direction, every other check having passed.
C20_Witness ==
    LET
        \* Whether the struct has an `id` field renamed to `_id`, and whether it has
        \* one that is not.
        IdRenamed(input) ==
            \E i \in DOMAIN input.fields :
                /\ input.fields[i].ident = "id"
                /\ input.fields[i].serde.rename = Some("_id")
        IndexKeys(input) ==
            IF input.indexes = None THEN {}
            ELSE UNION {Range(input.indexes[1][i].keys) : i \in DOMAIN input.indexes[1]}
    IN
    /\ made.what = "derive"
    /\ IdRenamed(made.input)
    /\ \E k \in IndexKeys(made.input) : k.key = "name" /\ k.direction = 0
    /\ ~made.out.ok
    /\ made.out.err = "index direction must be 1 or -1"

\* C21: for every projection declared on an entity that passes the derive's
\* checks, the emitted projection type has exactly the referenced fields,
\* each with the type and the serde rename of the same-named field of the
\* entity; FIELDS lists the wire names of the referenced fields in the order
\* of declaration; and SelectableWithId is implemented exactly when `id` is
\* referenced.
C21_ProjectionTypes ==
    LET
        FieldNamed(input, f) ==
            input.fields[CHOOSE i \in DOMAIN input.fields : input.fields[i].ident = f]
        WireName(input, f) ==
            IF FieldNamed(input, f).serde.rename # None
            THEN FieldNamed(input, f).serde.rename[1] ELSE f
    IN
    (made.what = "derive" /\ made.out.err \in {"none", "proc-macro derive panicked"}) =>
        /\ DOMAIN made.out.projections = DOMAIN made.input.projections
        /\ \A i \in DOMAIN made.input.projections :
             LET p == made.input.projections[i]
                 t == made.out.projections[i]
             IN  /\ t.ident = p.ident
                 /\ [j \in DOMAIN t.fields |-> t.fields[j].ident] = p.fields
                 /\ \A j \in DOMAIN p.fields :
                      /\ t.fields[j].of = p.fields[j]
                      /\ t.fields[j].rename = FieldNamed(made.input, p.fields[j]).serde.rename
                 /\ t.FIELDS = Some([j \in DOMAIN p.fields |-> WireName(made.input, p.fields[j])])
                 /\ t.has_id <=> (\E j \in DOMAIN p.fields : p.fields[j] = "id")


\* C22: applying a typed update to a value in memory overwrites exactly the
\* fields that are Set in the update and present in the target's shape, with
\* the update's values; every other field of the target keeps its value, the
\* target's shape does not change, and an update with every field Omit
\* changes nothing.
C22_ApplyOverwritesSetFields ==
    made.what = "UpdateApply::apply" =>
        /\ DOMAIN made.out = DOMAIN made.target
        /\ \A f \in DOMAIN made.target :
             made.out[f] = IF f \in DOMAIN made.update THEN made.update[f]
                           ELSE made.target[f]
        /\ (DOMAIN made.update = {} => made.out = made.target)

\* An update that sets `id` and `name` is applied to a projection that has
\* only `name`: the name is overwritten, and the projection gets no `id`.
C22_Witness ==
    /\ made.what = "UpdateApply::apply"
    /\ DOMAIN made.update = {"id", "name"}
    /\ DOMAIN made.target = {"name"}
    /\ made.out["name"] = made.update["name"]
    /\ made.out["name"] # made.target["name"]


\* C23: a raw update document given through UntypedUpdate or
\* UntypedUpdateApply reaches the database unchanged, not nested inside a
\* set operator, on update, update_one, patch and find_one_and_update.
C23_RawUpdateUnchanged ==
    (/\ log.on
     /\ log.op \in {"update", "update_one", "patch", "find_one_and_update"}
     /\ log.given # None
     /\ log.given[1].kind \in {"untyped", "untyped_apply"})
    => \A i \in DOMAIN log.calls :
           log.calls[i].update = Some(log.given[1].doc)


\* C26: a typed update reaches the database wrapped under exactly one set
\* operator on every update path: update, update_one, patch and
\* find_one_and_update, given a TypedUpdate, each send the update document
\* {"$set": <the serialized update>}.
C26_TypedUpdateUnderOneSet ==
    (/\ log.on
     /\ log.op \in {"update", "update_one", "patch", "find_one_and_update"}
     /\ log.given # None
     /\ log.given[1].kind = "typed")
    => /\ Len(log.calls) = 1
       /\ log.calls[1].update =
              Some(Doc1("$set", TypedUpdate_to_document(build, log.given[1].set)))


\* C25: lock_by_id and find_one_and_lock each send the database one update,
\* and the update document that reaches the database is, for both, a single
\* set-operator document that assigns only the reserved field `_lock`, a
\* sub-document holding a seed: {"$set": {"_lock": {"seed": <seed>}}}.
C25_LockUpdateShape ==
    (log.on /\ log.op \in {"lock_by_id", "find_one_and_lock"})
    => /\ Len(log.calls) = 1
       /\ log.calls[1].update # None
       /\ LET sent == log.calls[1].update[1]
          IN  /\ DOMAIN sent = {"$set"}
              /\ DOMAIN sent["$set"] = {"_lock"}
              /\ DOMAIN sent["$set"]["_lock"] = {"seed"}


\* C24: enforce_indexes visits every entity declared through the derive: when
\* it returns Ok, it has called createIndexes exactly once on the collection
\* of each derived entity, with exactly the indexes the entity declares (an
\* index declared under the name `_` has no name).
C24_EveryEntityIndexed ==
    LET
        \* The index models an entity declares in #[entity(indexes(..))].
        Declared(input) ==
            [j \in DOMAIN input.indexes[1] |->
                [name |-> IF input.indexes[1][j].name = "_" THEN None
                          ELSE Some(input.indexes[1][j].name),
                 keys |-> input.indexes[1][j].keys]]
        CallsOn(collection) ==
            {k \in DOMAIN made.out.calls : made.out.calls[k].collection = collection}
    IN
    (made.what = "enforce_indexes" /\ made.out.ok) =>
        \A i \in DOMAIN made.program :
            LET on == CallsOn(derive_entity(made.program[i]).COLLECTION_NAME)
            IN  /\ Cardinality(on) = 1
                /\ \A k \in on : made.out.calls[k].indexes = Declared(made.program[i])

\* C30: enforce_indexes processes the collections one after another and
\* stops at the first createIndexes error, which it returns: the collections
\* after the failing one receive no call, the indexes created before the
\* failure stay created, and every call is issued outside any session,
\* whether the execution context carries one or not.
C30_StopsAtFirstError ==
    made.what = "enforce_indexes" =>
        LET calls == made.out.calls
            n == Len(made.registry)
            first == IF made.failing = {} THEN n + 1
                     ELSE CHOOSE i \in made.failing : \A j \in made.failing : i <= j
            reached == IF first > n THEN n ELSE first
        IN  /\ made.out.ok <=> made.failing = {}
            /\ ~made.out.ok => made.out.err = "create_indexes"
            /\ Len(calls) = reached
            /\ \A i \in 1..reached :
                 /\ calls[i].collection = made.registry[i].collection_name
                 /\ calls[i].indexes = made.registry[i].indexes
                 /\ calls[i].session = NoSession
            /\ made.out.created =
                 [i \in 1..(first - 1) |-> made.registry[i].collection_name]

\* Two collections are registered, the context carries a session, and the
\* first createIndexes fails while the second would not: the second
\* collection receives no call.  And a run where the second fails: the
\* first collection's indexes stay created.
C30_Witness ==
    /\ made.what = "enforce_indexes"
    /\ Len(made.registry) = 2
    /\ made.mongo.session # None
    /\ \/ made.failing = {1} /\ Len(made.out.calls) = 1
       \/ made.failing = {2} /\ Len(made.out.created) = 1
    /\ ~made.out.ok


\* C27: the projection cache only grows: no step removes an entry or changes
\* its value; a step adds an entry only when a thread that reads through a
\* projection type with a field list fills the entry of that field list; and
\* a full-record read (no field list) leaves the cache as it is and carries
\* no projection document to the database.
C27_CacheOnlyGrows ==
    [][/\ \A k \in DOMAIN cache : k \in DOMAIN cache' /\ cache'[k] = cache[k]
       /\ cache' # cache =>
            \E t \in Threads :
                /\ thr[t].pc = "miss"
                /\ thr[t].P.FIELDS # None
                /\ thr'[t].pc = "ready"
                /\ DOMAIN cache' = (DOMAIN cache) \cup {thr[t].P.FIELDS[1]}
       /\ \A t \in Threads :
            (thr'[t].P.FIELDS = None /\ thr'[t].pc # "idle") =>
                /\ thr'[t].proj = None
                /\ thr'[t].pc # "miss"
                /\ (thr'[t] # thr[t] => cache' = cache)]_vars

\* The cache holds the entries of two field lists, a thread has read the full
\* record without a projection document, and another one fills an entry that
\* is already there.
C27_Witness ==
    /\ Cardinality(DOMAIN cache) >= 2
    /\ \E t \in Threads : thr[t].P.FIELDS = None /\ thr[t].pc = "done" /\ thr[t].fetched # None
    /\ \E t \in Threads : /\ thr[t].pc = "miss"
                          /\ thr[t].P.FIELDS[1] \in DOMAIN cache


\* C28: in every entity the derive accepts, exactly one field carries the
\* wire name `_id`, and no two fields share a wire name: the keys the fields
\* are written under in a filter or an update are pairwise distinct.
C28_WireNamesDistinct ==
    (made.what = "derive" /\ made.out.ok) =>
        LET lits == made.out.field_lits IN
        /\ Cardinality({f \in DOMAIN lits : lits[f] = "_id"}) = 1
        /\ \A f \in DOMAIN lits, g \in DOMAIN lits : lits[f] = lits[g] => f = g


====
